---- MODULE Spec2Model ----
(***************************************************************************)
(* Metadata index of the repo cache manager (MetadataService): the         *)
(* in-memory cache with its dirty flag, the metadata file and the          *)
(* temporary files of the write-then-rename save, and the CLI commands     *)
(* that use them.                                                          *)
(***************************************************************************)
EXTENDS Integers, Sequences, FiniteSets, TLC

VARIABLES
    universe,   \* the specifications the commands of this run are given
    cache,      \* cacheRef of each process: [index, dirty]; index is <<>> for null
    pc,         \* where each process stands
    pend,       \* the operation a process has in flight: its locals and its result
    files,      \* cache directory: the content of each path
    clock,      \* Date.now()
    faults,     \* filesystem failures and kills so far
    called,     \* whether load() has been called in the process
    prev,       \* the last operation of the command the invocation before ran
    tree,       \* cache directory: the type of each entry below the cache root
    run,        \* the fetch command in progress: where it is, and its locals
    calls,      \* the calls the fetch command and its services made, in order
    temp        \* the temporary archive of the fetch command: none, partial, whole

vars == <<universe, cache, pc, pend, files, clock, faults, called, prev, tree,
          run, calls, temp>>

----------------------------------------------------------------------------
(* Bounds *)

\* most entries an index holds
MaxRepos == 2
\* last value of the clock
MaxClock == 1
\* most filesystem failures and kills in one run
MaxFaults == 1
\* most characters of a text after its prefix
MaxText == 3

\* the two CLI invocations that may run at once
Procs == {1, 2}

----------------------------------------------------------------------------
(* Data model: types.ts *)

None == [tag |-> "None", value |-> ""]
Some(v) == [tag |-> "Some", value |-> v]
getOrElse(o, d) == IF o.tag = "Some" THEN o.value ELSE d

PackageSpec(r, n, v) == [registry |-> r, name |-> n, version |-> v]

\* String.prototype.toLowerCase on the names of the model
toLowerCase(s) ==
    CASE s = "Vercel/Next.js" -> "vercel/next.js"
      [] s = "Lodash" -> "lodash"
      [] OTHER -> s

\* Date.prototype.toISOString, and new Date(s).getTime(): the milliseconds the
\* string names, NaN when it names no date
toISOString(t) == <<"iso", t>>
getTime(s) == IF s[1] = "iso" THEN [nan |-> FALSE, ms |-> s[2]] ELSE [nan |-> TRUE, ms |-> 0]
\* a timestamp string that is no date
InvalidDate == <<"text", 0>>
\* x < y of a number that may be NaN and a number: false on NaN
lessThan(x, y) == ~x.nan /\ x.ms < y
\* 24 * 60 * 60 * 1000
msPerDay == 24 * 60 * 60 * 1000

\* the path the cache gives a specification
normalizedPath(spec) ==
    IF spec.registry = "github"
    THEN <<"cacheDir", spec.name>>
    ELSE <<"cacheDir", spec.name, getOrElse(spec.version, "default")>>

RepoMetadata(spec, fetchedAt, lastAccessedAt, sizeBytes) ==
    [spec |-> spec, fetchedAt |-> fetchedAt, lastAccessedAt |-> lastAccessedAt,
     sizeBytes |-> sizeBytes, path |-> normalizedPath(spec)]

MetadataIndex(repos) == [version |-> 1, repos |-> repos]
EmptyIndex == MetadataIndex(<<>>)

\* null, and a non-null value, of a nullable field
Null == <<>>
NonNull(x) == <<x>>

----------------------------------------------------------------------------
(* The specifications a run works with *)

Scenarios ==
    { {PackageSpec("github", "Vercel/Next.js", None), PackageSpec("github", "vercel/next.js", None)},
      {PackageSpec("npm", "Lodash", None), PackageSpec("npm", "lodash", None)},
      {PackageSpec("pypi", "Lodash", None), PackageSpec("pypi", "lodash", None)},
      {PackageSpec("crates", "Lodash", None), PackageSpec("crates", "lodash", None)},
      {PackageSpec("npm", "lodash", None), PackageSpec("npm", "lodash", Some(""))},
      {PackageSpec("npm", "lodash", None), PackageSpec("npm", "lodash", Some("4.17.21"))},
      {PackageSpec("npm", "lodash", None), PackageSpec("pypi", "lodash", None)},
      {PackageSpec("github", "Vercel/Next.js", Some("v14.0.0")), PackageSpec("github", "vercel/next.js", None)} }

----------------------------------------------------------------------------
(* Strings, a character at a time: what the parser and the path resolver do
   to the text of a specification *)

\* String.prototype.toLowerCase
lowerChar(c) == CASE c = "A" -> "a" [] c = "B" -> "b" [] OTHER -> c
lowerCase(s) == [i \in 1..Len(s) |-> lowerChar(s[i])]

\* includes, startsWith, slice(n), indexOf
includes(s, c) == \E i \in 1..Len(s) : s[i] = c
startsWith(s, prefix) == Len(s) >= Len(prefix) /\ SubSeq(s, 1, Len(prefix)) = prefix
slice(s, n) == SubSeq(s, n + 1, Len(s))
indexOf(s, chars) ==
    IF \E i \in 1..Len(s) : s[i] \in chars
    THEN (CHOOSE i \in 1..Len(s) : s[i] \in chars /\ \A j \in 1..(i - 1) : s[j] \notin chars) - 1
    ELSE -1

\* String.prototype.split(c)
RECURSIVE split(_, _)
split(s, c) ==
    LET i == indexOf(s, {c})
    IN  IF i = -1 THEN <<s>> ELSE <<SubSeq(s, 1, i)>> \o split(slice(s, i + 1), c)

\* String.prototype.trim
RECURSIVE trim(_)
trim(s) ==
    IF s = <<>> THEN s
    ELSE IF s[1] = " " THEN trim(Tail(s))
    ELSE IF s[Len(s)] = " " THEN trim(SubSeq(s, 1, Len(s) - 1))
    ELSE s

\* the cache directory with nothing in it: only the root
NoTree == (<<>> :> "Directory")

\* fs.exists, fs.stat(...).type and fs.readDirectory on the cache directory; a
\* path is the sequence of its segments below the root
treeExists(path) == path \in DOMAIN tree
readDirectory(dir) ==
    { q[Len(q)] : q \in {q \in DOMAIN tree : Len(q) = Len(dir) + 1 /\ SubSeq(q, 1, Len(dir)) = dir} }

\* pathService.join(cacheDir, ...): the segments of the parts, empty ones dropped
RECURSIVE joinPath(_)
joinPath(parts) ==
    IF parts = <<>> THEN <<>>
    ELSE SelectSeq(split(Head(parts), "/"), LAMBDA seg : seg # <<>>) \o joinPath(Tail(parts))

\* Option.none() of a text
none == [tag |-> "None", value |-> <<>>]

\* "default"
default == <<"d", "e", "f", "a", "u", "l", "t">>

\* getPath as src/services/cache.ts had it: no look at the directory
getPath_noScan(spec) ==
    IF spec.registry # "github"
    THEN {joinPath(<<spec.name, getOrElse(spec.version, default)>>)}
    ELSE {joinPath(<<spec.name>>)}

\* getPath: the paths it can return, one for each order in which
\* fs.readDirectory can list the entries
getPath(spec) ==
    IF spec.registry # "github"
    THEN {joinPath(<<spec.name, getOrElse(spec.version, default)>>)}
    ELSE LET normalized == joinPath(<<spec.name>>)
             owner == split(spec.name, "/")[1]
             repo == split(spec.name, "/")[2]
             owners == {entry \in readDirectory(<<>>) :
                           lowerCase(entry) = owner /\ tree[<<entry>>] = "Directory"}
             found == UNION { { <<entry, repoEntry>> :
                                  repoEntry \in {r \in readDirectory(<<entry>>) :
                                                    lowerCase(r) = repo} } :
                              entry \in owners }
         IN  IF treeExists(normalized) THEN {normalized}
             ELSE IF ~treeExists(<<>>) THEN {normalized}
             ELSE IF found = {} THEN {normalized}
             ELSE found

----------------------------------------------------------------------------
(* Specification equality *)

\* the equality of the service before the case-insensitive lookup (1.1.0)
specMatches_caseSensitive(a, b) ==
    IF a.registry # b.registry \/ a.name # b.name THEN FALSE
    ELSE getOrElse(a.version, "") = getOrElse(b.version, "")

specMatches(a, b) ==
    IF a.registry # b.registry THEN FALSE
    ELSE LET aName == IF a.registry = "github" THEN toLowerCase(a.name) ELSE a.name
             bName == IF b.registry = "github" THEN toLowerCase(b.name) ELSE b.name
         IN  IF aName # bName THEN FALSE
             ELSE getOrElse(a.version, "") = getOrElse(b.version, "")

\* the equality the releases before 1.1.0 wrote metadata files with
legacySpecMatches(a, b) ==
    IF a.registry # b.registry \/ a.name # b.name THEN FALSE
    ELSE getOrElse(a.version, "") = getOrElse(b.version, "")

----------------------------------------------------------------------------
(* Serialization: Schema.compose(Schema.parseJson(), MetadataIndex) *)

\* optionalWith(String, {as: "Option"}): None is an absent key, Some(v) the key with v
encodeSpec(s) ==
    [registry |-> s.registry, name |-> s.name,
     version |-> IF s.version.tag = "Some" THEN <<s.version.value>> ELSE <<>>]
decodeSpec(j) ==
    [registry |-> j.registry, name |-> j.name,
     version |-> IF j.version = <<>> THEN None ELSE Some(j.version[1])]

encodeEntry(r) ==
    [spec |-> encodeSpec(r.spec), fetchedAt |-> r.fetchedAt,
     lastAccessedAt |-> r.lastAccessedAt, sizeBytes |-> r.sizeBytes, path |-> r.path]
decodeEntry(j) ==
    [spec |-> decodeSpec(j.spec), fetchedAt |-> j.fetchedAt,
     lastAccessedAt |-> j.lastAccessedAt, sizeBytes |-> j.sizeBytes, path |-> j.path]

encodeIndex(index) ==
    [version |-> index.version,
     repos |-> [i \in 1..Len(index.repos) |-> encodeEntry(index.repos[i])]]
decodeIndex(j) ==
    [version |-> j.version,
     repos |-> [i \in 1..Len(j.repos) |-> decodeEntry(j.repos[i])]]

\* File contents: a complete serialization, a strict prefix of one (an open
\* that truncated or a write that stopped: never valid JSON), or bytes that
\* decode to no index.
Full(index) == [tag |-> "full", json |-> <<encodeIndex(index)>>]
Partial == [tag |-> "partial", json |-> <<>>]
Garbage == [tag |-> "garbage", json |-> <<>>]
Absent == [tag |-> "absent", json |-> <<>>]
\* what a save that did not reach its rename left in its temporary file: no
\* operation reads it, the next open of that path truncates it
Leftover == [tag |-> "leftover", json |-> <<>>]

\* Schema.decodeUnknown on a file's content: the index, or Null on a ParseError
decodeUnknown(content) ==
    IF content.tag = "full" THEN NonNull(decodeIndex(content.json[1])) ELSE Null

----------------------------------------------------------------------------
(* The cache directory *)

\* pathService.join(cacheDir, "metadata.json")
metadataPath == <<"metadata.json", 0>>
\* the save of the releases before the temporary file: it writes the metadata
\* file in place
tempPath_inPlace(now) == metadataPath
\* `${metadataPath}.tmp.${Date.now()}`
tempPath(now) == <<"metadata.json.tmp", now>>

Paths == {metadataPath} \cup {tempPath(t) : t \in 0..MaxClock}

\* a file descriptor: the path that now names the open file, Unlinked when
\* no path names it any more, Closed when no file is open
Closed == <<"closed", 0>>
Unlinked == <<"unlinked", 0>>

\* fs.exists and fs.readFileString
exists(path) == files[path] # Absent
readFileString(path) == files[path]

\* rename(2): the directory after it
renamed(from, to) == [files EXCEPT ![to] = files[from], ![from] = Absent]
\* rename(2): where a descriptor points after it
redirected(fd, from, to) ==
    IF fd = from THEN to ELSE IF fd = to THEN Unlinked ELSE fd

\* the directory once process p has given up the temporary file it named at
\* `now`, unless another process is writing or about to rename that same path
abandoned(dir, p, now) ==
    LET path == tempPath(now)
    IN  IF /\ dir[path] # Absent
           /\ \A q \in Procs \ {p} :
                 ~(pc[q] \in {"write", "rename"} /\ tempPath(pend[q].now) = path)
        THEN [dir EXCEPT ![path] = Leftover]
        ELSE dir

----------------------------------------------------------------------------
(* MetadataService: the operations on an index *)

\* index.repos.filter((r) => !specMatches(r.spec, spec))
withoutSpec(repos, spec) == SelectSeq(repos, LAMBDA r : ~specMatches(r.spec, spec))

\* index.repos.find((r) => specMatches(r.spec, spec)) ?? null
findIn(index, spec) ==
    LET hits == SelectSeq(index.repos, LAMBDA r : specMatches(r.spec, spec))
    IN  IF hits = <<>> THEN Null ELSE NonNull(hits[1])

\* an add that appends without filtering
addTo_keepsOld(index, metadata) == [index EXCEPT !.repos = Append(index.repos, metadata)]
\* add: the index it saves
addTo(index, metadata) ==
    [index EXCEPT !.repos = Append(withoutSpec(index.repos, metadata.spec), metadata)]

\* addMany: the index it saves
RECURSIVE addManyRepos(_, _)
addManyRepos(repos, metadata) ==
    IF metadata = <<>> THEN repos
    ELSE addManyRepos(Append(withoutSpec(repos, Head(metadata).spec), Head(metadata)),
                      Tail(metadata))
\* an addMany that filters the index once and appends the whole list
addManyTo_appendAll(index, metadata) ==
    [index EXCEPT !.repos =
        SelectSeq(index.repos,
                  LAMBDA r : \A i \in 1..Len(metadata) : ~specMatches(r.spec, metadata[i].spec))
        \o metadata]
addManyTo(index, metadata) == [index EXCEPT !.repos = addManyRepos(index.repos, metadata)]

\* removeMany: index.repos.filter((r) => !specs.some((spec) => specMatches(r.spec, spec)))
withoutSpecs(repos, specs) ==
    SelectSeq(repos, LAMBDA r : ~(\E spec \in specs : specMatches(r.spec, spec)))

\* an inclusive cutoff
olderThan_inclusive(index, days, now) ==
    SelectSeq(index.repos,
              LAMBDA r : ~getTime(r.lastAccessedAt).nan
                         /\ getTime(r.lastAccessedAt).ms <= now - days * msPerDay)
\* findOlderThan: cutoff = Date.now() - days * 24 * 60 * 60 * 1000
olderThan(index, days, now) ==
    SelectSeq(index.repos,
              LAMBDA r : lessThan(getTime(r.lastAccessedAt), now - days * msPerDay))
\* findLargerThan
largerThan(index, bytes) == SelectSeq(index.repos, LAMBDA r : r.sizeBytes > bytes)

\* an update of the access time that stamps the time of the fetch as well
touch_stamping(index, spec, now) ==
    [index EXCEPT !.repos =
        [i \in 1..Len(index.repos) |->
            IF specMatches(index.repos[i].spec, spec)
            THEN [index.repos[i] EXCEPT !.lastAccessedAt = toISOString(now),
                                        !.fetchedAt = toISOString(now)]
            ELSE index.repos[i]]]

\* updateAccessTime: the index it caches
touch(index, spec, now) ==
    [index EXCEPT !.repos =
        [i \in 1..Len(index.repos) |->
            IF specMatches(index.repos[i].spec, spec)
            THEN [index.repos[i] EXCEPT !.lastAccessedAt = toISOString(now)]
            ELSE index.repos[i]]]

\* loadFromDisk: ok is whether fs.exists and fs.readFileString succeed
loadFromDisk(ok) ==
    IF ~ok THEN EmptyIndex
    ELSE IF ~exists(metadataPath) THEN EmptyIndex
    ELSE LET decoded == decodeUnknown(readFileString(metadataPath))
         IN  IF decoded = Null THEN EmptyIndex ELSE decoded[1]

\* the load of the releases before the in-memory cache: every call reads the file
load_uncached(p, ok) ==
    [index |-> loadFromDisk(ok), dirty |-> FALSE, readDisk |-> TRUE]

\* load: the index it returns, the dirty flag it leaves, whether it read the file
load(p, ok) ==
    IF cache[p].index # Null
    THEN [index |-> cache[p].index[1], dirty |-> cache[p].dirty, readDisk |-> FALSE]
    ELSE [index |-> loadFromDisk(ok), dirty |-> FALSE, readDisk |-> TRUE]

\* saveToDisk ... .pipe(Effect.orElse(() => Effect.void)): what the caller of a
\* save gets when one of its filesystem calls failed
saveOutcome(failed) == "success"

----------------------------------------------------------------------------
(* Processes *)

CacheState(index, dirty) == [index |-> index, dirty |-> dirty]

\* the frame of an operation: what it was called with, the index load() gave
\* it, what it returns, the locals of its saveToDisk, the command that called
\* it with which input, where that command goes on when it returns and the
\* path of the entry it found
Frame(p, op, arg, ret, l, ok) ==
    [op |-> op, arg |-> arg, ret |-> ret, before |-> l.index,
     readDisk |-> l.readDisk, readOk |-> ok, first |-> ~called[p],
     index |-> l.index, now |-> 0, fd |-> Closed,
     failed |-> FALSE, outcome |-> "success", cmd |-> "none", next |-> "ready",
     out |-> Null, input |-> Null]

NoFrame ==
    [op |-> "none", arg |-> <<>>, ret |-> <<>>, before |-> EmptyIndex,
     readDisk |-> FALSE, readOk |-> TRUE, first |-> FALSE,
     index |-> EmptyIndex, now |-> 0, fd |-> Closed,
     failed |-> FALSE, outcome |-> "success", cmd |-> "none", next |-> "ready",
     out |-> Null, input |-> Null]

\* a RegistryError or NetworkError, and no error
Error(tag, operation) == [tag |-> tag, operation |-> operation]
NoError == Error("none", "")

\* the fetch command before it runs: at is where it is; spec, existing, force,
\* destPath and sizeBytes are its locals; fresh says it is on the way of a
\* fresh fetch; ref, source, response, listed, repoInfo, archive, cloneResult
\* and exitCode are locals of registry.fetch; error is what the command ended
\* with; file and index are the metadata file and the index the command found
\* (of a path or info command too, with cmd, its --quiet, what it printed to
\* stdout and stderr, and the status it ended with); refresh is the fiber
\* that path forks
NoRun ==
    [at |-> "none", spec |-> <<>>, existing |-> <<>>, force |-> FALSE, destPath |-> <<>>,
     sizeBytes |-> 0, fresh |-> FALSE, ref |-> FALSE, source |-> "none",
     response |-> "none", listed |-> FALSE, repoInfo |-> FALSE, archive |-> FALSE,
     cloneResult |-> "none", exitCode |-> "none", error |-> NoError,
     file |-> <<>>, index |-> <<>>,
     cmd |-> "none", quiet |-> FALSE, stdout |-> <<>>, stderr |-> FALSE,
     status |-> "none", refresh |-> "none"]

\* a call: who makes it, what is called, for a git process whether it is
\* given a ref, and how the call ended when its caller looks at that
Call(by, call) == [by |-> by, call |-> call, ref |-> FALSE, result |-> "none"]

\* an operation may start: a filesystem failure of its load counts as a fault
Begin(p, ok) ==
    /\ pc[p] = "ready"
    /\ ok \/ (cache[p].index = Null /\ faults < MaxFaults)
    /\ faults' = IF ok THEN faults ELSE faults + 1
    /\ called' = [called EXCEPT ![p] = TRUE]

\* an operation that ends without a save: index and dirty are what it leaves
\* in cacheRef
Completes(p, frame, index, dirty) ==
    /\ cache' = [cache EXCEPT ![p] = CacheState(NonNull(index), dirty)]
    /\ pend' = [pend EXCEPT ![p] = frame]
    /\ pc' = [pc EXCEPT ![p] = "returning"]
    /\ UNCHANGED <<universe, prev, tree, files, clock>>

Complete(p, frame, index, dirty) ==
    Completes(p, frame, index, dirty) /\ UNCHANGED <<run, calls, temp>>

\* save(index): Ref.set(cacheRef, {index, dirty: false}), then saveToDisk(index)
Persists(p, frame, index) ==
    /\ cache' = [cache EXCEPT ![p] = CacheState(NonNull(index), FALSE)]
    /\ pend' = [pend EXCEPT ![p] = [frame EXCEPT !.index = index]]
    /\ pc' = [pc EXCEPT ![p] = "mkdir"]
    /\ UNCHANGED <<universe, prev, tree, files, clock>>

Persist(p, frame, index) ==
    Persists(p, frame, index) /\ UNCHANGED <<run, calls, temp>>

\* a filesystem call of saveToDisk may fail
MayFail(ok) ==
    /\ ok \/ faults < MaxFaults
    /\ faults' = IF ok THEN faults ELSE faults + 1
    /\ UNCHANGED called

\* saveToDisk is over: flush then clears the dirty flag
Saved(p, failed, dir) ==
    /\ cache' = [cache EXCEPT ![p] =
                    IF pend[p].op = "flush" THEN [@ EXCEPT !.dirty = FALSE] ELSE @]
    /\ pend' = [q \in Procs |->
                    IF q = p
                    THEN [pend[p] EXCEPT !.fd = Closed, !.failed = failed,
                                         !.outcome = saveOutcome(failed)]
                    ELSE pend[q]]
    /\ pc' = [pc EXCEPT ![p] = "returning"]
    /\ files' = IF pc[p] \in {"write", "rename"} THEN abandoned(dir, p, pend[p].now) ELSE dir
    /\ UNCHANGED <<run, calls, temp, universe, prev, tree, clock>>

----------------------------------------------------------------------------
(* saveToDisk, one filesystem call at a time *)

\* fs.makeDirectory(cacheDir, {recursive: true}), then the encode and Date.now()
MakeDirectory(p, ok) ==
    /\ pc[p] = "mkdir"
    /\ MayFail(ok)
    /\ IF ok
       THEN /\ pend' = [pend EXCEPT ![p].now = clock]
            /\ pc' = [pc EXCEPT ![p] = "open"]
            /\ UNCHANGED <<run, calls, temp, universe, prev, tree, cache, files, clock>>
       ELSE Saved(p, TRUE, files)

\* fs.writeFileString(tempPath, jsonStr): the open, which creates or truncates
OpenTemp(p, ok) ==
    /\ pc[p] = "open"
    /\ MayFail(ok)
    /\ IF ok
       THEN /\ files' = [files EXCEPT ![tempPath(pend[p].now)] = Partial]
            /\ pend' = [pend EXCEPT ![p].fd = tempPath(pend[p].now)]
            /\ pc' = [pc EXCEPT ![p] = "write"]
            /\ UNCHANGED <<run, calls, temp, universe, prev, tree, cache, clock>>
       ELSE Saved(p, TRUE, files)

\* fs.writeFileString(tempPath, jsonStr): the write and the close
WriteTemp(p, ok) ==
    /\ pc[p] = "write"
    /\ MayFail(ok)
    /\ IF ok
       THEN /\ files' = IF pend[p].fd \in Paths
                        THEN [files EXCEPT ![pend[p].fd] = Full(pend[p].index)]
                        ELSE files
            /\ pend' = [pend EXCEPT ![p].fd = Closed]
            /\ pc' = [pc EXCEPT ![p] = "rename"]
            /\ UNCHANGED <<run, calls, temp, universe, prev, tree, cache, clock>>
       ELSE Saved(p, TRUE, files)

\* fs.rename(tempPath, metadataPath): it fails when tempPath is gone
Rename(p, ok) ==
    /\ pc[p] = "rename"
    /\ MayFail(ok)
    /\ LET from == tempPath(pend[p].now)
       IN  IF ok /\ exists(from)
           THEN /\ cache' = [cache EXCEPT ![p] =
                        IF pend[p].op = "flush" THEN [@ EXCEPT !.dirty = FALSE] ELSE @]
                /\ pend' = [q \in Procs |->
                        IF q = p
                        THEN [pend[p] EXCEPT !.outcome = saveOutcome(FALSE)]
                        ELSE [pend[q] EXCEPT !.fd = redirected(@, from, metadataPath)]]
                /\ pc' = [pc EXCEPT ![p] = "returning"]
                /\ files' = renamed(from, metadataPath)
                /\ UNCHANGED <<run, calls, temp, universe, prev, tree, clock>>
           ELSE Saved(p, TRUE, files)

\* the operation returns to its caller: a command goes on, or is over
Return(p) ==
    /\ pc[p] = "returning"
    /\ pc' = [pc EXCEPT ![p] = pend[p].next]
    /\ pend' = [pend EXCEPT ![p] = IF pend[p].next = "ready" THEN NoFrame ELSE @]
    /\ UNCHANGED <<run, calls, temp, universe, prev, tree, cache, files, clock, faults, called>>

----------------------------------------------------------------------------
(* MetadataService: the operations *)

Load(p, ok) ==
    /\ Begin(p, ok)
    /\ LET l == load(p, ok)
       IN  Complete(p, Frame(p, "load", <<>>, l.index, l, ok), l.index, l.dirty)

Find(p, spec, ok) ==
    /\ Begin(p, ok)
    /\ LET l == load(p, ok)
       IN  Complete(p, Frame(p, "find", spec, findIn(l.index, spec), l, ok),
                    l.index, l.dirty)

Add(p, metadata, ok) ==
    /\ Begin(p, ok)
    /\ LET l == load(p, ok)
       IN  /\ Len(addTo(l.index, metadata).repos) <= MaxRepos
           /\ Persist(p, Frame(p, "add", metadata, "void", l, ok), addTo(l.index, metadata))

AddMany(p, metadata, ok) ==
    /\ Begin(p, ok)
    /\ LET l == load(p, ok)
       IN  /\ Len(addManyTo(l.index, metadata).repos) <= MaxRepos
           /\ Persist(p, Frame(p, "addMany", metadata, "void", l, ok),
                      addManyTo(l.index, metadata))

\* a remove that saves whether or not an entry matched
Remove_savesAlways(p, spec, ok) ==
    /\ Begin(p, ok)
    /\ LET l == load(p, ok)
           filtered == withoutSpec(l.index.repos, spec)
       IN  Persist(p, Frame(p, "remove", spec, Len(filtered) # Len(l.index.repos), l, ok),
                   [l.index EXCEPT !.repos = filtered])

Remove(p, spec, ok) ==
    /\ Begin(p, ok)
    /\ LET l == load(p, ok)
           filtered == withoutSpec(l.index.repos, spec)
       IN  IF Len(filtered) = Len(l.index.repos)
           THEN Complete(p, Frame(p, "remove", spec, FALSE, l, ok), l.index, l.dirty)
           ELSE Persist(p, Frame(p, "remove", spec, TRUE, l, ok),
                        [l.index EXCEPT !.repos = filtered])

RemoveMany(p, specs, ok) ==
    /\ Begin(p, ok)
    /\ LET l == load(p, ok)
           filtered == withoutSpecs(l.index.repos, specs)
           removedCount == Len(l.index.repos) - Len(filtered)
       IN  IF removedCount > 0
           THEN Persist(p, Frame(p, "removeMany", specs, removedCount, l, ok),
                        [l.index EXCEPT !.repos = filtered])
           ELSE Complete(p, Frame(p, "removeMany", specs, removedCount, l, ok),
                         l.index, l.dirty)

\* the updateAccessTime of the releases before the dirty flag: it saves
UpdateAccessTime_saves(p, spec, ok) ==
    /\ Begin(p, ok)
    /\ LET l == load(p, ok)
       IN  Persist(p, Frame(p, "updateAccessTime", spec, "void", l, ok),
                   touch(l.index, spec, clock))

UpdateAccessTime(p, spec, ok) ==
    /\ Begin(p, ok)
    /\ LET l == load(p, ok)
       IN  Complete(p, [Frame(p, "updateAccessTime", spec, "void", l, ok) EXCEPT !.now = clock],
                    touch(l.index, spec, clock), TRUE)

FindOlderThan(p, days, ok) ==
    /\ Begin(p, ok)
    /\ LET l == load(p, ok)
       IN  Complete(p, [Frame(p, "findOlderThan", days, olderThan(l.index, days, clock), l, ok)
                           EXCEPT !.now = clock],
                    l.index, l.dirty)

FindLargerThan(p, bytes, ok) ==
    /\ Begin(p, ok)
    /\ LET l == load(p, ok)
       IN  Complete(p, Frame(p, "findLargerThan", bytes, largerThan(l.index, bytes), l, ok),
                    l.index, l.dirty)

\* save(index), as the clean command calls it: after all() has loaded the index
Save(p, index) ==
    /\ pc[p] = "ready"
    /\ cache[p].index # Null
    /\ Persist(p, Frame(p, "save", index, "void",
                        [index |-> cache[p].index[1], readDisk |-> FALSE], TRUE), index)
    /\ UNCHANGED <<faults, called>>

\* flush reads cacheRef itself: it calls no load()
Flush(p) ==
    /\ pc[p] = "ready"
    /\ LET l == [index |-> IF cache[p].index = Null THEN EmptyIndex ELSE cache[p].index[1],
                 readDisk |-> FALSE]
       IN  IF cache[p].dirty /\ cache[p].index # Null
           THEN /\ pend' = [pend EXCEPT ![p] = Frame(p, "flush", <<>>, "saved", l, TRUE)]
                /\ pc' = [pc EXCEPT ![p] = "mkdir"]
           ELSE /\ pend' = [pend EXCEPT ![p] = Frame(p, "flush", <<>>, "clean", l, TRUE)]
                /\ pc' = [pc EXCEPT ![p] = "returning"]
    /\ UNCHANGED <<run, calls, temp, universe, prev, tree, cache, files, clock, faults, called>>

\* the sizes a fetch measures
Sizes == {1000, 2000}

\* the entry the fetch command adds: fetchedAt and lastAccessedAt are now
Fetched(spec, size) ==
    RepoMetadata(spec, toISOString(clock), toISOString(clock), size)

\* the lists a caller gives addMany: none, one or two entries, of any two
\* specifications (the same one twice included)
Batches(specs) ==
    {<<>>}
    \cup { <<Fetched(a, 1000)>> : a \in specs }
    \cup { <<Fetched(a, 1000), Fetched(b, 2000)>> : a \in specs, b \in specs }

----------------------------------------------------------------------------
(* The environment *)

\* time passes
Tick ==
    /\ clock < MaxClock
    /\ clock' = clock + 1
    /\ UNCHANGED <<run, calls, temp, universe, prev, tree, cache, pc, pend, files, faults, called>>

\* the process ends, its memory is gone
Exit(p) ==
    /\ pc[p] \in {"ready", "done"}
    /\ pc' = [pc EXCEPT ![p] = "exited"]
    /\ pend' = [pend EXCEPT ![p] = NoFrame]
    /\ prev' = IF pc[p] = "done" THEN pend[p] ELSE prev
    /\ cache' = [cache EXCEPT ![p] = CacheState(Null, FALSE)]
    /\ UNCHANGED <<run, calls, temp, universe, tree, files, clock, faults, called>>

\* the process is killed in the middle of an operation
Crash(p) ==
    /\ pc[p] \notin {"ready", "exited"}
    /\ faults < MaxFaults
    /\ faults' = faults + 1
    /\ pc' = [pc EXCEPT ![p] = "exited"]
    /\ pend' = [pend EXCEPT ![p] = NoFrame]
    /\ cache' = [cache EXCEPT ![p] = CacheState(Null, FALSE)]
    /\ files' = IF pc[p] \in {"write", "rename"} THEN abandoned(files, p, pend[p].now) ELSE files
    /\ UNCHANGED <<run, calls, temp, universe, prev, tree, clock, called>>

\* Layer.effect(MetadataService, ...): Ref.make({index: null, dirty: false})
Start(p) ==
    /\ pc[p] = "exited"
    /\ pc' = [pc EXCEPT ![p] = "ready"]
    /\ called' = [called EXCEPT ![p] = FALSE]
    /\ cache' = [cache EXCEPT ![p] = CacheState(Null, FALSE)]
    /\ UNCHANGED <<run, calls, temp, universe, prev, tree, pend, files, clock, faults>>

----------------------------------------------------------------------------
(* Initial states *)

\* the entry a release before 1.1.0 recorded for a specification
LegacyEntry(spec) == RepoMetadata(spec, toISOString(0), toISOString(0), 1000)

\* the indexes such a release can have written: no two entries equal to it
LegacyIndexes(specs) ==
    { MetadataIndex(repos) : repos \in
        { r \in UNION { [1..n -> {LegacyEntry(s) : s \in specs}] : n \in 0..MaxRepos } :
            \A i, j \in 1..Len(r) : i # j => ~legacySpecMatches(r[i].spec, r[j].spec) } }

\* the metadata file an invocation can find: none, one that decodes to no
\* index, or one an earlier release wrote
InitFiles(specs) == {Absent, Garbage} \cup {Full(index) : index \in LegacyIndexes(specs)}

InitDisk(specs) ==
    \E file \in InitFiles(specs) :
        files = [path \in Paths |-> IF path = metadataPath THEN file ELSE Absent]

InitProcs(running) ==
    /\ cache = [p \in Procs |-> CacheState(Null, FALSE)]
    /\ pc = [p \in Procs |-> IF p \in running THEN "ready" ELSE "exited"]
    /\ pend = [p \in Procs |-> NoFrame]
    /\ clock = 0
    /\ faults = 0
    /\ called = [p \in Procs |-> FALSE]
    /\ prev = NoFrame
    /\ tree = NoTree
    /\ run = NoRun
    /\ calls = <<>>
    /\ temp = "none"

----------------------------------------------------------------------------
(* Spec: one process at a time calls the service; every filesystem call
   succeeds and no process is killed *)

Init ==
    /\ universe \in Scenarios
    /\ InitDisk(universe)
    /\ InitProcs({1})

Next ==
    \/ Load(1, TRUE)
    \/ \E spec \in universe : Find(1, spec, TRUE)
    \/ \E spec \in universe, size \in Sizes : Add(1, Fetched(spec, size), TRUE)
    \/ \E metadata \in Batches(universe) : AddMany(1, metadata, TRUE)
    \/ \E spec \in universe : Remove(1, spec, TRUE)
    \/ \E specs \in SUBSET universe : RemoveMany(1, specs, TRUE)
    \/ \E spec \in universe : UpdateAccessTime(1, spec, TRUE)
    \/ Save(1, EmptyIndex)
    \/ Flush(1)
    \/ MakeDirectory(1, TRUE)
    \/ OpenTemp(1, TRUE)
    \/ WriteTemp(1, TRUE)
    \/ Rename(1, TRUE)
    \/ Return(1)
    \/ Tick
    \/ Exit(1)
    \/ Start(1)

Spec == Init /\ [][Next]_vars

----------------------------------------------------------------------------
(* SpecFaults: one process at a time calls the service; filesystem calls may
   fail and the process may be killed *)

FaultScenarios ==
    { {PackageSpec("github", "Vercel/Next.js", None), PackageSpec("github", "vercel/next.js", None)} }

InitFaults ==
    /\ universe \in FaultScenarios
    /\ InitDisk(universe)
    /\ InitProcs({1})

NextFaults ==
    \/ \E ok \in BOOLEAN : Load(1, ok)
    \/ \E spec \in universe, ok \in BOOLEAN : Find(1, spec, ok)
    \/ \E spec \in universe, size \in Sizes, ok \in BOOLEAN : Add(1, Fetched(spec, size), ok)
    \/ \E spec \in universe, ok \in BOOLEAN : Remove(1, spec, ok)
    \/ \E spec \in universe, ok \in BOOLEAN : UpdateAccessTime(1, spec, ok)
    \/ Save(1, EmptyIndex)
    \/ Flush(1)
    \/ \E ok \in BOOLEAN : MakeDirectory(1, ok)
    \/ \E ok \in BOOLEAN : OpenTemp(1, ok)
    \/ \E ok \in BOOLEAN : WriteTemp(1, ok)
    \/ \E ok \in BOOLEAN : Rename(1, ok)
    \/ Return(1)
    \/ Tick
    \/ Exit(1)
    \/ Crash(1)
    \/ Start(1)

SpecFaults == InitFaults /\ [][NextFaults]_vars

----------------------------------------------------------------------------
(* SpecRace: two CLI invocations add entries to the same metadata file at the
   same time; every filesystem call succeeds unless the race makes it fail *)

RaceScenarios ==
    { {PackageSpec("npm", "lodash", None), PackageSpec("pypi", "lodash", None)} }

InitRace ==
    /\ universe \in RaceScenarios
    /\ InitDisk(universe)
    /\ InitProcs(Procs)

NextRace ==
    \/ \E p \in Procs, spec \in universe : Add(p, Fetched(spec, 1000), TRUE)
    \/ \E p \in Procs : MakeDirectory(p, TRUE)
    \/ \E p \in Procs : OpenTemp(p, TRUE)
    \/ \E p \in Procs : WriteTemp(p, TRUE)
    \/ \E p \in Procs : Rename(p, TRUE)
    \/ \E p \in Procs : Return(p)
    \/ \E p \in Procs : Exit(p)
    \/ Tick

SpecRace == InitRace /\ [][NextRace]_vars

----------------------------------------------------------------------------
(* The commands of the CLI *)

\* registry.parseSpec on a specification's text: a github name is lowercased
parseSpec(input) ==
    IF input.registry = "github"
    THEN [input EXCEPT !.name = toLowerCase(@)]
    ELSE input

\* the frame of the last service call of a command
CommandFrame(p, cmd, op, spec, ret, l) ==
    [Frame(p, op, spec, ret, l, TRUE) EXCEPT !.cmd = cmd, !.next = "done", !.now = clock]

\* the frame of a command that was given input and found the entry existing
Found(frame, input, existing) ==
    [frame EXCEPT !.input = NonNull(input),
                  !.out = IF existing = Null THEN Null ELSE NonNull(existing[1].path)]

\* find, then updateAccessTime when the entry is there: what path, info and
\* open do to the index
Lookup(p, cmd, input) ==
    /\ Begin(p, TRUE)
    /\ LET spec == parseSpec(input)
           l == load(p, TRUE)
           existing == findIn(l.index, spec)
       IN  IF existing = Null
           THEN Complete(p, Found(CommandFrame(p, cmd, "find", spec, existing, l),
                                  input, existing),
                         l.index, l.dirty)
           ELSE Complete(p, Found(CommandFrame(p, cmd, "updateAccessTime", spec, "void", l),
                                  input, existing),
                         touch(l.index, spec, clock), TRUE)

PathCmd(p, input) == Lookup(p, "path", input)
InfoCmd(p, input) == Lookup(p, "info", input)
OpenCmd(p, input) == Lookup(p, "open", input)

\* fetch: force removes a cached entry and fetches afresh, a cached git
\* repository is updated and added again, any other cached entry only has its
\* access time updated, and an entry not cached is fetched and added
FetchCmd(p, input, force, isGit, fetched, size) ==
    /\ Begin(p, TRUE)
    /\ LET spec == parseSpec(input)
           l == load(p, TRUE)
           existing == findIn(l.index, spec)
       IN  IF existing # Null
           THEN IF force
                THEN Persist(p, [Found(CommandFrame(p, "fetch", "remove", spec, TRUE, l),
                                       input, existing)
                                    EXCEPT !.next = "fetch"],
                             [l.index EXCEPT !.repos = withoutSpec(l.index.repos, spec)])
                ELSE IF isGit
                THEN Persist(p, Found(CommandFrame(p, "fetch", "add",
                                    [spec |-> spec, fetchedAt |-> existing[1].fetchedAt,
                                     lastAccessedAt |-> toISOString(clock),
                                     sizeBytes |-> size, path |-> existing[1].path],
                                    "void", l), input, existing),
                             addTo(l.index,
                                    [spec |-> spec, fetchedAt |-> existing[1].fetchedAt,
                                     lastAccessedAt |-> toISOString(clock),
                                     sizeBytes |-> size, path |-> existing[1].path]))
                ELSE Complete(p, Found(CommandFrame(p, "fetch", "updateAccessTime", spec,
                                                    "void", l), input, existing),
                              touch(l.index, spec, clock), TRUE)
           ELSE IF fetched
                THEN /\ Len(addTo(l.index, Fetched(spec, size)).repos) <= MaxRepos
                     /\ Persist(p, Found(CommandFrame(p, "fetch", "add", Fetched(spec, size),
                                                      "void", l), input, existing),
                                addTo(l.index, Fetched(spec, size)))
                ELSE Complete(p, Found(CommandFrame(p, "fetch", "find", spec, existing, l),
                                       input, existing),
                              l.index, l.dirty)

\* fetch --force after its removal: the fresh fetch and the add
FetchFresh(p, fetched, size) ==
    /\ pc[p] = "fetch"
    /\ LET spec == pend[p].arg
           l == load(p, TRUE)
       IN  IF fetched
           THEN Persist(p, [CommandFrame(p, "fetch", "add", Fetched(spec, size), "void", l)
                               EXCEPT !.input = pend[p].input],
                        addTo(l.index, Fetched(spec, size)))
           ELSE Complete(p, [CommandFrame(p, "fetch", "find", spec, Null, l)
                                EXCEPT !.input = pend[p].input],
                         l.index, l.dirty)
    /\ UNCHANGED <<faults, called>>

\* remove: the directory of a cached entry is deleted, then its entry; removed
\* is whether cache.remove succeeded
RemoveCmd(p, input, removed) ==
    /\ Begin(p, TRUE)
    /\ LET spec == parseSpec(input)
           l == load(p, TRUE)
           existing == findIn(l.index, spec)
       IN  IF existing # Null /\ removed
           THEN Persist(p, Found(CommandFrame(p, "remove", "remove", spec, TRUE, l),
                                 input, existing),
                        [l.index EXCEPT !.repos = withoutSpec(l.index.repos, spec)])
           ELSE Complete(p, Found(CommandFrame(p, "remove", "find", spec, existing, l),
                                  input, existing),
                         l.index, l.dirty)

----------------------------------------------------------------------------
(* SpecCli: CLI invocations, one after the other; each runs one command and
   ends *)

CliScenarios ==
    { {PackageSpec("github", "Vercel/Next.js", None), PackageSpec("github", "vercel/next.js", None)},
      {PackageSpec("npm", "lodash", None), PackageSpec("npm", "lodash", Some("4.17.21"))} }

InitCli ==
    /\ universe \in CliScenarios
    /\ InitDisk(universe)
    /\ InitProcs({1})

NextCli ==
    \/ \E input \in universe : PathCmd(1, input)
    \/ \E input \in universe : InfoCmd(1, input)
    \/ \E input \in universe : OpenCmd(1, input)
    \/ \E input \in universe, force, isGit, fetched \in BOOLEAN, size \in Sizes :
          FetchCmd(1, input, force, isGit, fetched, size)
    \/ \E fetched \in BOOLEAN, size \in Sizes : FetchFresh(1, fetched, size)
    \/ \E input \in universe, removed \in BOOLEAN : RemoveCmd(1, input, removed)
    \/ MakeDirectory(1, TRUE)
    \/ OpenTemp(1, TRUE)
    \/ WriteTemp(1, TRUE)
    \/ Rename(1, TRUE)
    \/ Return(1)
    \/ Tick
    \/ Exit(1)
    \/ Start(1)

SpecCli == InitCli /\ [][NextCli]_vars

----------------------------------------------------------------------------
(* SpecFilters: one process asks for the old and the large entries of an index
   whose access times lie around the cutoffs *)

FilterScenarios ==
    { {PackageSpec("npm", "lodash", None), PackageSpec("pypi", "lodash", None)} }

\* the clock when the process runs, and the access times on file
Nows == {2 * msPerDay, 2 * msPerDay + 1}
AccessStamps ==
    {toISOString(t) : t \in {0, 1, msPerDay, msPerDay + 1}} \cup {InvalidDate}
FilterSizes == {1000, 100000000}
\* what prune is asked with
Days == {0, 1, 2}
Bytes == {999, 1000, 50000000, 100000000}

FilterEntries(specs) ==
    { RepoMetadata(spec, toISOString(0), stamp, size) :
        spec \in specs, stamp \in AccessStamps, size \in FilterSizes }

InitFilters ==
    /\ universe \in FilterScenarios
    /\ \E repos \in UNION { [1..n -> FilterEntries(universe)] : n \in 0..MaxRepos } :
          files = [path \in Paths |->
                      IF path = metadataPath THEN Full(MetadataIndex(repos)) ELSE Absent]
    /\ cache = [p \in Procs |-> CacheState(Null, FALSE)]
    /\ pc = [p \in Procs |-> IF p = 1 THEN "ready" ELSE "exited"]
    /\ pend = [p \in Procs |-> NoFrame]
    /\ clock \in Nows
    /\ faults = 0
    /\ called = [p \in Procs |-> FALSE]
    /\ prev = NoFrame
    /\ tree = NoTree
    /\ run = NoRun
    /\ calls = <<>>
    /\ temp = "none"

NextFilters ==
    \/ \E days \in Days : FindOlderThan(1, days, TRUE)
    \/ \E bytes \in Bytes : FindLargerThan(1, bytes, TRUE)
    \/ \E spec \in universe : UpdateAccessTime(1, spec, TRUE)
    \/ Return(1)

SpecFilters == InitFilters /\ [][NextFilters]_vars

----------------------------------------------------------------------------
(* SpecCliFaults: CLI invocations, one after the other, whose filesystem calls
   may fail *)

InitCliFaults ==
    /\ universe \in FaultScenarios
    /\ InitDisk(universe)
    /\ InitProcs({1})

NextCliFaults ==
    \/ NextCli
    \/ MakeDirectory(1, FALSE)
    \/ OpenTemp(1, FALSE)
    \/ WriteTemp(1, FALSE)
    \/ Rename(1, FALSE)

SpecCliFaults == InitCliFaults /\ [][NextCliFaults]_vars

----------------------------------------------------------------------------
(* SpecPaths: two processes resolve paths in a cache directory that holds
   entries of earlier releases, while directories are made and removed *)

\* the names an entry of the cache root and an entry below it can have
OwnerNames == {<<"a">>, <<"A">>}
RepoNames == {<<"b">>, <<"B">>}

\* the cache directories: an entry of the root is a file or a directory, and
\* only a directory has entries
Trees ==
    UNION { { [path \in {<<>>} \cup {<<e>> : e \in {e \in OwnerNames : kind[e] # "none"}} \cup below |->
                  IF Len(path) = 1 THEN kind[path[1]] ELSE "Directory"] :
                below \in SUBSET {<<e, r>> : e \in {e \in OwnerNames : kind[e] = "Directory"},
                                             r \in RepoNames} } :
            kind \in [OwnerNames -> {"none", "File", "Directory"}] }

\* the specifications the parser hands to getPath: a GitHub name is lower case
PathSpecs ==
    {PackageSpec("github", <<"a", "/", "b">>, v) : v \in {none, Some(<<"b">>)}}
    \cup {PackageSpec(r, <<"a">>, v) : r \in {"npm", "pypi"}, v \in {none, Some(<<"b">>), Some(default)}}

\* getPath, were it to make the directory it resolves
GetPath_creating(p, spec, path, ok) ==
    /\ pc[p] = "ready"
    /\ path \in getPath(spec)
    /\ ok
    /\ pend' = [pend EXCEPT ![p] =
                   [NoFrame EXCEPT !.op = "getPath", !.arg = spec, !.ret = path]]
    /\ pc' = [pc EXCEPT ![p] = "returning"]
    /\ tree' = [q \in DOMAIN tree \cup {path} |-> IF q \in DOMAIN tree THEN tree[q] ELSE "Directory"]
    /\ UNCHANGED <<run, calls, temp, universe, prev, cache, files, clock, faults, called>>

\* getPath(spec): a filesystem call of it may fail, and Effect.orDie then
\* ends the fiber with a defect
GetPath(p, spec, path, ok) ==
    /\ pc[p] = "ready"
    /\ path \in getPath(spec)
    /\ ok \/ (spec.registry = "github" /\ faults < MaxFaults)
    /\ faults' = IF ok THEN faults ELSE faults + 1
    /\ pend' = [pend EXCEPT ![p] =
                   [NoFrame EXCEPT !.op = "getPath", !.arg = spec, !.readOk = ok,
                                   !.ret = IF ok THEN path ELSE <<>>,
                                   !.outcome = IF ok THEN "success" ELSE "die"]]
    /\ pc' = [pc EXCEPT ![p] = "returning"]
    /\ UNCHANGED <<run, calls, temp, universe, prev, tree, cache, files, clock, called>>

\* ensureDir(path): fs.makeDirectory(path, {recursive: true}), its failure
\* ignored
EnsureDir(p, path) ==
    /\ pc[p] = "ready"
    /\ LET made == {SubSeq(path, 1, n) : n \in 0..Len(path)}
       IN  tree' = IF \E q \in made : q \in DOMAIN tree /\ tree[q] = "File"
                   THEN tree
                   ELSE [q \in DOMAIN tree \cup made |->
                            IF q \in DOMAIN tree THEN tree[q] ELSE "Directory"]
    /\ UNCHANGED <<run, calls, temp, universe, prev, cache, pc, pend, files, clock, faults, called>>

\* remove(path): fs.remove(path, {recursive: true}) of a path that exists
RemovePath(p, path) ==
    /\ pc[p] = "ready"
    /\ tree' = IF treeExists(path)
               THEN [q \in {q \in DOMAIN tree :
                               ~(Len(q) >= Len(path) /\ SubSeq(q, 1, Len(path)) = path)} |-> tree[q]]
               ELSE tree
    /\ UNCHANGED <<run, calls, temp, universe, prev, cache, pc, pend, files, clock, faults, called>>

InitPaths ==
    /\ universe = {}
    /\ files = [path \in Paths |-> Absent]
    /\ cache = [p \in Procs |-> CacheState(Null, FALSE)]
    /\ pc = [p \in Procs |-> "ready"]
    /\ pend = [p \in Procs |-> NoFrame]
    /\ clock = 0
    /\ faults = 0
    /\ called = [p \in Procs |-> FALSE]
    /\ prev = NoFrame
    /\ tree \in Trees
    /\ run = NoRun
    /\ calls = <<>>
    /\ temp = "none"

NextPaths ==
    \E p \in Procs :
        \/ \E spec \in PathSpecs, ok \in BOOLEAN : \E path \in getPath(spec) :
               GetPath(p, spec, path, ok)
        \/ \E spec \in PathSpecs : \E path \in getPath(spec) : EnsureDir(p, path)
        \/ \E spec \in PathSpecs : \E path \in getPath(spec) : RemovePath(p, path)
        \/ Return(p)

SpecPaths == InitPaths /\ [][NextPaths]_vars

----------------------------------------------------------------------------
(* SpecParse: a process parses the text of a specification and prints what it
   parsed *)

\* a ParseResult: a PackageSpec, or {error}
Rejected == [ok |-> FALSE, spec |-> PackageSpec("none", <<>>, none)]
Parsed(registry, name, version) == [ok |-> TRUE, spec |-> PackageSpec(registry, name, version)]

\* /^([^@#]+)[@#](.+)$/: a name up to the first @ or #, a ref after it
parseGithubSpec(input) ==
    LET i == indexOf(input, {"@", "#"})
        name == SubSeq(input, 1, i)
        ref == slice(input, i + 1)
    IN  IF i >= 1 /\ ref # <<>>
        THEN IF ~includes(name, "/") THEN Rejected
             ELSE Parsed("github", lowerCase(name), Some(ref))
        ELSE IF ~includes(input, "/") THEN Rejected
        ELSE Parsed("github", lowerCase(input), none)

\* /^(@[^@]+)(?:@(.+))?$/ for a scoped package, split("@") for the others
parseNpmSpec(input) ==
    IF startsWith(input, <<"@">>)
    THEN LET i == indexOf(Tail(input), {"@"}) + 1
             version == slice(input, i + 1)
         IN  IF i = 0 THEN IF Len(input) >= 2 THEN Parsed("npm", input, none) ELSE Rejected
             ELSE IF i >= 2 /\ version # <<>>
             THEN Parsed("npm", SubSeq(input, 1, i), Some(version))
             ELSE Rejected
    ELSE LET parts == split(input, "@")
         IN  IF Len(parts) > 2 THEN Rejected
             ELSE IF parts[1] = <<>> THEN Rejected
             ELSE Parsed("npm", parts[1], IF Len(parts) = 2 THEN Some(parts[2]) ELSE none)

\* /^([^@=]+)(?:[@=]=?(.+))?$/
parsePypiSpec(input) ==
    LET i == indexOf(input, {"@", "="})
        rest == slice(input, i + 1)
        version == IF Len(rest) >= 2 /\ rest[1] = "=" THEN Tail(rest) ELSE rest
    IN  IF i = -1 THEN IF input = <<>> THEN Rejected ELSE Parsed("pypi", trim(input), none)
        ELSE IF i = 0 \/ rest = <<>> THEN Rejected
        ELSE Parsed("pypi", trim(SubSeq(input, 1, i)), Some(trim(version)))

parseCratesSpec(input) ==
    LET parts == split(input, "@")
    IN  IF Len(parts) > 2 THEN Rejected
        ELSE IF parts[1] = <<>> THEN Rejected
        ELSE Parsed("crates", trim(parts[1]),
                    IF Len(parts) = 2 THEN Some(trim(parts[2])) ELSE none)

\* the prefixes of parseSpecSync, and the registry names specToString prints
npm == <<"n", "p", "m">>
pypi == <<"p", "y", "p", "i">>
pip == <<"p", "i", "p">>
crates == <<"c", "r", "a", "t", "e", "s">>
cargo == <<"c", "a", "r", "g", "o">>
rust == <<"r", "u", "s", "t">>
github == <<"g", "i", "t", "h", "u", "b">>

parseSpecSync(input) ==
    LET trimmed == trim(input)
    IN  IF startsWith(trimmed, npm \o <<":">>) THEN parseNpmSpec(slice(trimmed, 4))
        ELSE IF startsWith(trimmed, pypi \o <<":">>) THEN parsePypiSpec(slice(trimmed, 5))
        ELSE IF startsWith(trimmed, pip \o <<":">>) THEN parsePypiSpec(slice(trimmed, 4))
        ELSE IF \/ startsWith(trimmed, crates \o <<":">>)
                \/ startsWith(trimmed, cargo \o <<":">>)
                \/ startsWith(trimmed, rust \o <<":">>)
        THEN parseCratesSpec(slice(trimmed, indexOf(trimmed, {":"}) + 1))
        ELSE IF startsWith(trimmed, github \o <<":">>) THEN parseGithubSpec(slice(trimmed, 7))
        ELSE IF includes(trimmed, "/") /\ ~startsWith(trimmed, <<"@">>) THEN parseGithubSpec(trimmed)
        ELSE parseNpmSpec(trimmed)

\* specToString: the registry and a colon unless it is github, the name, and
\* an @ with the version when there is one
specToString(spec) ==
    LET prefix == CASE spec.registry = "github" -> <<>>
                    [] spec.registry = "npm" -> npm \o <<":">>
                    [] spec.registry = "pypi" -> pypi \o <<":">>
                    [] spec.registry = "crates" -> crates \o <<":">>
        version == IF spec.version.tag = "Some" THEN <<"@">> \o spec.version.value ELSE <<>>
    IN  prefix \o spec.name \o version

\* services/registry.ts has parsers of its own, which RegistryService.parseSpec
\* calls: the name of a GitHub specification is kept as typed, and an empty
\* version counts as none
registryParseGithubSpec(input) ==
    LET i == indexOf(input, {"@", "#"})
        name == SubSeq(input, 1, i)
        ref == slice(input, i + 1)
    IN  IF i >= 1 /\ ref # <<>>
        THEN IF ~includes(name, "/") THEN Rejected
             ELSE Parsed("github", name, Some(ref))
        ELSE IF ~includes(input, "/") THEN Rejected
        ELSE Parsed("github", input, none)

registryParseNpmSpec(input) ==
    IF startsWith(input, <<"@">>)
    THEN LET i == indexOf(Tail(input), {"@"}) + 1
             version == slice(input, i + 1)
         IN  IF i = 0 THEN IF Len(input) >= 2 THEN Parsed("npm", input, none) ELSE Rejected
             ELSE IF i >= 2 /\ version # <<>>
             THEN Parsed("npm", SubSeq(input, 1, i), Some(version))
             ELSE Rejected
    ELSE LET parts == split(input, "@")
         IN  IF Len(parts) > 2 THEN Rejected
             ELSE IF parts[1] = <<>> THEN Rejected
             ELSE Parsed("npm", parts[1],
                         IF Len(parts) = 2 /\ parts[2] # <<>> THEN Some(parts[2]) ELSE none)

registryParsePypiSpec(input) == parsePypiSpec(input)

registryParseCratesSpec(input) ==
    LET parts == split(input, "@")
    IN  IF Len(parts) > 2 THEN Rejected
        ELSE IF parts[1] = <<>> THEN Rejected
        ELSE Parsed("crates", trim(parts[1]),
                    IF Len(parts) = 2 /\ parts[2] # <<>> THEN Some(trim(parts[2])) ELSE none)

registryParseSpec(input) ==
    LET trimmed == trim(input)
    IN  IF startsWith(trimmed, npm \o <<":">>) THEN registryParseNpmSpec(slice(trimmed, 4))
        ELSE IF startsWith(trimmed, pypi \o <<":">>) THEN registryParsePypiSpec(slice(trimmed, 5))
        ELSE IF startsWith(trimmed, pip \o <<":">>) THEN registryParsePypiSpec(slice(trimmed, 4))
        ELSE IF \/ startsWith(trimmed, crates \o <<":">>)
                \/ startsWith(trimmed, cargo \o <<":">>)
                \/ startsWith(trimmed, rust \o <<":">>)
        THEN registryParseCratesSpec(slice(trimmed, indexOf(trimmed, {":"}) + 1))
        ELSE IF startsWith(trimmed, github \o <<":">>)
        THEN registryParseGithubSpec(slice(trimmed, 7))
        ELSE IF includes(trimmed, "/") /\ ~startsWith(trimmed, <<"@">>)
        THEN registryParseGithubSpec(trimmed)
        ELSE registryParseNpmSpec(trimmed)

\* the texts a user types: a prefix or none, and a few characters
Alphabet == {"a", "A", "/", "@", "#", "=", " "}
Texts == UNION { [1..n -> Alphabet] : n \in 0..MaxText }
Prefixes ==
    {<<>>} \cup {prefix \o <<":">> : prefix \in {npm, pypi, pip, crates, cargo, rust, github}}
Inputs == {prefix \o text : prefix \in Prefixes, text \in Texts}

\* registry.parseSpec(input)
ParseSpec(p, input) ==
    /\ pc[p] = "ready"
    /\ pend' = [pend EXCEPT ![p] =
                   [NoFrame EXCEPT !.op = "parseSpec", !.arg = input,
                                   !.ret = parseSpecSync(input),
                                   !.outcome = IF parseSpecSync(input).ok
                                               THEN "success" ELSE "SpecParseError"]]
    /\ pc' = [pc EXCEPT ![p] = "returning"]
    /\ UNCHANGED <<run, calls, temp, universe, prev, tree, cache, files, clock, faults, called>>

\* RegistryService.parseSpec(input) of services/registry.ts
RegistryParseSpec(p, input) ==
    /\ pc[p] = "ready"
    /\ pend' = [pend EXCEPT ![p] =
                   [NoFrame EXCEPT !.op = "registry.parseSpec", !.arg = input,
                                   !.ret = registryParseSpec(input),
                                   !.outcome = IF registryParseSpec(input).ok
                                               THEN "success" ELSE "SpecParseError"]]
    /\ pc' = [pc EXCEPT ![p] = "returning"]
    /\ UNCHANGED <<run, calls, temp, universe, prev, tree, cache, files, clock, faults, called>>

\* specToString(parsedSpec), which the command prints
SpecToString(p) ==
    /\ pc[p] = "returning"
    /\ pend[p].op = "parseSpec"
    /\ pend[p].ret.ok
    /\ pend[p].out = Null
    /\ pend' = [pend EXCEPT ![p].out = NonNull(specToString(pend[p].ret.spec))]
    /\ UNCHANGED <<run, calls, temp, universe, prev, tree, cache, pc, files, clock, faults, called>>

InitParse ==
    /\ universe = {}
    /\ files = [path \in Paths |-> Absent]
    /\ InitProcs({1})

NextParse ==
    \/ \E input \in Inputs : ParseSpec(1, input)
    \/ \E input \in Inputs : RegistryParseSpec(1, input)
    \/ SpecToString(1)
    \/ Return(1)

SpecParse == InitParse /\ [][NextParse]_vars

----------------------------------------------------------------------------
(* SpecFetch: the fetch command, a service call at a time, with registry.fetch
   of services/registry.ts and GitService.clone, an external call at a time *)

\* the command goes on at a place, or has failed with an error
Go(at) == [run EXCEPT !.at = at]
\* an error that is logged and not raised: the command would go on
Failed_goesOn(r, error) == [r EXCEPT !.at = "getSize", !.error = error]
Failed(r, error) == [r EXCEPT !.at = "failed", !.error = error]
Logged(call) == calls' = Append(calls, call)

\* a step of the command between two calls of the metadata service
Step(p, at) ==
    /\ pc[p] = "command"
    /\ run.at = at
    /\ UNCHANGED <<universe, prev, tree, cache, pc, pend, files, clock, faults, called>>

\* registry.parseSpec(spec) and metadata.find(parsedSpec)
FetchCommand(p, input, force) ==
    /\ Begin(p, TRUE)
    /\ LET spec == parseSpec(input)
           l == load(p, TRUE)
           existing == findIn(l.index, spec)
       IN  /\ existing = Null => Len(l.index.repos) < MaxRepos
           /\ Completes(p, [Found(CommandFrame(p, "fetch", "find", spec, existing, l),
                                  input, existing) EXCEPT !.next = "command"],
                        l.index, l.dirty)
           /\ run' = [NoRun EXCEPT !.at = "getPath", !.spec = spec, !.existing = existing,
                                   !.force = force, !.file = files[metadataPath],
                                   !.index = l.index]
    /\ calls' = <<Call("fetch", "registry.parseSpec"), Call("fetch", "metadata.find")>>
    /\ temp' = "none"

\* cache.getPath(parsedSpec)
CacheGetPath(p) ==
    /\ Step(p, "getPath")
    /\ run' = [run EXCEPT !.at = IF run.existing # Null THEN "isGitRepo" ELSE "ensureDir",
                          !.destPath = normalizedPath(run.spec)]
    /\ Logged(Call("fetch", "cache.getPath"))
    /\ UNCHANGED temp

\* git.isGitRepo, were --force looked at only for what is no git repository
GitIsGitRepo_updatingFirst(p, isGit) ==
    /\ Step(p, "isGitRepo")
    /\ run' = Go(IF run.fresh THEN IF isGit THEN "getCurrentRef" ELSE "add"
                 ELSE IF isGit THEN "update"
                 ELSE IF run.force THEN "remove"
                 ELSE "updateAccessTime")
    /\ Logged(Call("fetch", "git.isGitRepo"))
    /\ UNCHANGED temp

\* git.isGitRepo(existing.path) of a cached entry, git.isGitRepo(destPath) of
\* a fresh fetch
GitIsGitRepo(p, isGit) ==
    /\ Step(p, "isGitRepo")
    /\ run' = Go(IF run.fresh THEN IF isGit THEN "getCurrentRef" ELSE "add"
                 ELSE IF run.force THEN "remove"
                 ELSE IF isGit THEN "update"
                 ELSE "updateAccessTime")
    /\ Logged(Call("fetch", "git.isGitRepo"))
    /\ UNCHANGED temp

\* --force: cache.remove(existing.path), then metadata.remove(parsedSpec)
CacheRemove(p) ==
    /\ Step(p, "remove")
    /\ run' = Go("metadata.remove")
    /\ Logged(Call("fetch", "cache.remove"))
    /\ UNCHANGED temp

MetadataRemove(p) ==
    /\ pc[p] = "command"
    /\ run.at = "metadata.remove"
    /\ LET l == load(p, TRUE)
       IN  Persists(p, [CommandFrame(p, "fetch", "remove", run.spec, TRUE, l)
                           EXCEPT !.next = "command"],
                    [l.index EXCEPT !.repos = withoutSpec(l.index.repos, run.spec)])
    /\ run' = Go("ensureDir")
    /\ Logged(Call("fetch", "metadata.remove"))
    /\ UNCHANGED <<temp, faults, called>>

\* git.update(existing.path), were its failure to end the command
GitUpdate_raising(p, ok) ==
    /\ Step(p, "update")
    /\ run' = IF ok THEN Go("getSize") ELSE Failed(run, Error("GitError", "update"))
    /\ Logged([Call("fetch", "git.update") EXCEPT !.result = IF ok THEN "zero" ELSE "nonzero"])
    /\ UNCHANGED temp

\* git.update(existing.path): its failure is caught and logged
GitUpdate(p, ok) ==
    /\ Step(p, "update")
    /\ run' = Go("getSize")
    /\ Logged([Call("fetch", "git.update") EXCEPT !.result = IF ok THEN "zero" ELSE "nonzero"])
    /\ UNCHANGED temp

\* cache.getSize(existing.path) after an update, cache.getSize(destPath) after
\* a fresh fetch
CacheGetSize(p, sizeBytes) ==
    /\ Step(p, "getSize")
    /\ run' = [run EXCEPT !.at = IF run.fresh THEN "isGitRepo" ELSE "getCurrentRef",
                          !.sizeBytes = sizeBytes]
    /\ Logged(Call("fetch", "cache.getSize"))
    /\ UNCHANGED temp

\* git.getCurrentRef(...).pipe(Effect.orElseSucceed(() => "unknown"))
GitGetCurrentRef(p) ==
    /\ Step(p, "getCurrentRef")
    /\ run' = Go("add")
    /\ Logged(Call("fetch", "git.getCurrentRef"))
    /\ UNCHANGED temp

\* metadata.updateAccessTime(parsedSpec) of a cached entry that is no git
\* repository: the command ends
MetadataUpdateAccessTime(p) ==
    /\ pc[p] = "command"
    /\ run.at = "updateAccessTime"
    /\ LET l == load(p, TRUE)
       IN  Completes(p, CommandFrame(p, "fetch", "updateAccessTime", run.spec, "void", l),
                     touch(l.index, run.spec, clock), TRUE)
    /\ run' = Go("end")
    /\ Logged(Call("fetch", "metadata.updateAccessTime"))
    /\ UNCHANGED <<temp, faults, called>>

\* metadata.add: the entry of a fresh fetch, or the entry of an updated git
\* repository, which keeps fetchedAt and path of the one it replaces
MetadataAdd(p) ==
    /\ pc[p] = "command"
    /\ run.at = "add"
    /\ LET l == load(p, TRUE)
           metadata ==
               IF run.fresh
               THEN [spec |-> run.spec, fetchedAt |-> toISOString(clock),
                     lastAccessedAt |-> toISOString(clock), sizeBytes |-> run.sizeBytes,
                     path |-> run.destPath]
               ELSE [spec |-> run.spec, fetchedAt |-> run.existing[1].fetchedAt,
                     lastAccessedAt |-> toISOString(clock), sizeBytes |-> run.sizeBytes,
                     path |-> run.existing[1].path]
       IN  Persists(p, CommandFrame(p, "fetch", "add", metadata, "void", l),
                    addTo(l.index, metadata))
    /\ run' = Go("end")
    /\ Logged(Call("fetch", "metadata.add"))
    /\ UNCHANGED <<temp, faults, called>>

\* cache.ensureDir(parentPath): the fresh fetch begins
CacheEnsureDir(p) ==
    /\ Step(p, "ensureDir")
    /\ run' = [run EXCEPT !.at = "registry.fetch", !.fresh = TRUE]
    /\ Logged(Call("fetch", "cache.ensureDir"))
    /\ UNCHANGED temp

\* registry.fetch(parsedSpec, destPath): cache.ensureDir(destPath), then the
\* switch on the registry; fetchGithub clones with the version as ref
RegistryFetch(p) ==
    /\ Step(p, "registry.fetch")
    /\ run' = IF run.spec.registry = "github"
              THEN [run EXCEPT !.at = "clone", !.source = "github",
                               !.ref = (run.spec.version.tag = "Some")]
              ELSE [run EXCEPT !.at = "metadata", !.source = "package"]
    /\ calls' = calls \o <<Call("fetch", "registry.fetch"), Call("registry", "cache.ensureDir")>>
    /\ UNCHANGED temp

\* the fallback of fetchNpm, fetchPypi and fetchCrates: the archive the
\* metadata declares, an error when it declares none
toArchive(r) ==
    IF r.archive THEN [r EXCEPT !.at = "download"]
    ELSE Failed(r, Error("RegistryError",
                         IF r.spec.registry = "npm" THEN "get-tarball-url" ELSE "get-download-url"))

\* fetchNpm, fetchPypi, fetchCrates: the request of the metadata. listed is
\* whether the version list holds the version asked for (the latest, when
\* none is), repoInfo whether the metadata names a repository, archive
\* whether it declares an archive. PyPI is asked for the version in the URL
\* and answers 404 for one it does not list; a crate always has a dl_path.
RequestMetadata(p, response, listed, repoInfo, archive) ==
    /\ Step(p, "metadata")
    /\ (run.spec.registry = "pypi" /\ ~listed) => response = "http"
    /\ LET declared == [run EXCEPT !.archive = (archive \/ run.spec.registry = "crates"),
                                    !.response = response, !.listed = listed,
                                    !.repoInfo = repoInfo]
       IN  run' = CASE response = "network" -> Failed(declared, Error("NetworkError", ""))
                    [] response = "http" ->
                          Failed(declared, Error("RegistryError", "fetch-metadata"))
                    [] response = "json" ->
                          Failed(declared, Error("RegistryError", "parse-metadata"))
                    [] response = "data" ->
                          IF ~listed
                          THEN Failed(declared, Error("RegistryError", "resolve-version"))
                          ELSE IF repoInfo THEN [declared EXCEPT !.at = "clone", !.ref = TRUE]
                          ELSE toArchive(declared)
    /\ Logged(Call("registry", "fetch metadata"))
    /\ UNCHANGED temp

\* a clone that failed, when every failure is passed on to the caller
cloneFailed_propagates(r) ==
    Failed([r EXCEPT !.cloneResult = "Left"], Error("RegistryError", "clone"))

\* a clone that failed: fetchGithub fails with it, the others fall back
cloneFailed(r) ==
    IF r.source = "github"
    THEN Failed([r EXCEPT !.cloneResult = "Left"], Error("RegistryError", "clone"))
    ELSE toArchive([r EXCEPT !.cloneResult = "Left"])

\* a clone that succeeded: registry.fetch is over
cloned(r) == [r EXCEPT !.at = "getSize", !.cloneResult = "Right"]

\* GitService.clone, were it to retry whether or not a ref was given
GitClone_alwaysRetries(p, exitCode) ==
    /\ Step(p, "clone")
    /\ run' = IF exitCode = "zero" THEN cloned(run)
              ELSE IF exitCode = "nonzero" THEN Go("clone.fallback")
              ELSE cloneFailed(run)
    /\ Logged([Call("git", "git clone") EXCEPT !.ref = run.ref, !.result = exitCode])
    /\ UNCHANGED temp

\* GitService.clone: git clone, with --branch when a ref is given; exitCode
\* is what proc.exited gives, or that it rejects
GitClone(p, exitCode) ==
    /\ Step(p, "clone")
    /\ run' = IF exitCode = "zero" THEN cloned(run)
              ELSE IF exitCode = "nonzero" /\ run.ref THEN Go("clone.fallback")
              ELSE cloneFailed(run)
    /\ Logged([Call("git", "git clone") EXCEPT !.ref = run.ref, !.result = exitCode])
    /\ UNCHANGED temp

\* the clone without the ref, were it tried again when it fails
GitCloneFallback_again(p, exitCode) ==
    /\ Step(p, "clone.fallback")
    /\ run' = IF exitCode = "zero" THEN cloned(run)
              ELSE IF exitCode = "nonzero" THEN run
              ELSE cloneFailed(run)
    /\ Logged([Call("git", "git clone") EXCEPT !.result = exitCode])
    /\ UNCHANGED temp

\* GitService.clone: the clone without the ref, after the one with it failed
GitCloneFallback(p, exitCode) ==
    /\ Step(p, "clone.fallback")
    /\ run' = IF exitCode = "zero" THEN cloned(run) ELSE cloneFailed(run)
    /\ Logged([Call("git", "git clone") EXCEPT !.result = exitCode])
    /\ UNCHANGED temp

\* downloadAndExtractTarball: fetch(url) and response.arrayBuffer()
Download(p, response) ==
    /\ Step(p, "download")
    /\ run' = CASE response = "network" -> Failed(run, Error("NetworkError", ""))
                [] response = "http" -> Failed(run, Error("RegistryError", "download-tarball"))
                [] response = "read" -> Failed(run, Error("RegistryError", "read-tarball"))
                [] response = "ok" -> Go("write")
    /\ Logged([Call("registry", "download archive") EXCEPT
                   !.result = IF response = "ok" THEN "zero" ELSE "rejected"])
    /\ UNCHANGED temp

\* Bun.write(tempFile, buffer): when it fails it may have written a part
WriteArchive(p, ok, partial) ==
    /\ Step(p, "write")
    /\ ok => ~partial
    /\ run' = IF ok THEN Go("tar") ELSE Failed(run, Error("RegistryError", "write-temp"))
    /\ temp' = IF ok THEN "whole" ELSE IF partial THEN "partial" ELSE "none"
    /\ Logged([Call("registry", "Bun.write") EXCEPT !.result = IF ok THEN "zero" ELSE "rejected"])

\* tar -xzf tempFile -C destPath: waiting for it may fail
Extract(p, exitCode) ==
    /\ Step(p, "tar")
    /\ run' = IF exitCode = "rejected"
              THEN Failed(run, Error("RegistryError", "extract-tarball"))
              ELSE [run EXCEPT !.at = "unlink", !.exitCode = exitCode]
    /\ Logged([Call("registry", "tar") EXCEPT !.result = exitCode])
    /\ UNCHANGED temp

\* unlink(tempFile) with Effect.ignore, then the exit code of tar
Unlink(p, ok) ==
    /\ Step(p, "unlink")
    /\ run' = IF run.exitCode = "zero" THEN Go("getSize")
              ELSE Failed(run, Error("RegistryError", "extract-tarball"))
    /\ temp' = IF ok THEN "none" ELSE temp
    /\ Logged([Call("registry", "unlink") EXCEPT !.result = IF ok THEN "zero" ELSE "rejected"])

\* an error handler that records the repository all the same
HandleCommandError_adds(p) ==
    /\ pc[p] = "command"
    /\ run.at = "failed"
    /\ run' = [run EXCEPT !.at = IF run.fresh THEN "add" ELSE "end"]
    /\ pc' = [pc EXCEPT ![p] = IF run.fresh THEN "command" ELSE "done"]
    /\ UNCHANGED <<universe, prev, tree, cache, pend, files, clock, faults, called, calls, temp>>

\* Effect.catchAll(handleCommandError): the error is printed, the command ends
HandleCommandError(p) ==
    /\ pc[p] = "command"
    /\ run.at = "failed"
    /\ pc' = [pc EXCEPT ![p] = "done"]
    /\ run' = Go("end")
    /\ UNCHANGED <<universe, prev, tree, cache, pend, files, clock, faults, called, calls, temp>>

FetchScenarios ==
    { {PackageSpec("github", "Vercel/Next.js", None),
       PackageSpec("github", "vercel/next.js", Some("v14.0.0"))},
      {PackageSpec("npm", "lodash", None), PackageSpec("pypi", "requests", Some("2.31.0"))},
      {PackageSpec("crates", "serde", Some("1.0.0")), PackageSpec("pypi", "requests", None)} }

ExitCodes == {"zero", "nonzero", "rejected"}

InitFetch ==
    /\ universe \in FetchScenarios
    /\ InitDisk(universe)
    /\ InitProcs({1})

NextFetch ==
    \/ \E input \in universe, force \in BOOLEAN : FetchCommand(1, input, force)
    \/ CacheGetPath(1)
    \/ \E isGit \in BOOLEAN : GitIsGitRepo(1, isGit)
    \/ CacheRemove(1)
    \/ MetadataRemove(1)
    \/ \E ok \in BOOLEAN : GitUpdate(1, ok)
    \/ \E sizeBytes \in Sizes : CacheGetSize(1, sizeBytes)
    \/ GitGetCurrentRef(1)
    \/ MetadataUpdateAccessTime(1)
    \/ MetadataAdd(1)
    \/ CacheEnsureDir(1)
    \/ RegistryFetch(1)
    \/ \E response \in {"network", "http", "json", "data"}, listed, repoInfo, archive \in BOOLEAN :
          RequestMetadata(1, response, listed, repoInfo, archive)
    \/ \E exitCode \in ExitCodes : GitClone(1, exitCode)
    \/ \E exitCode \in ExitCodes : GitCloneFallback(1, exitCode)
    \/ \E response \in {"network", "http", "read", "ok"} : Download(1, response)
    \/ \E ok, partial \in BOOLEAN : WriteArchive(1, ok, partial)
    \/ \E exitCode \in ExitCodes : Extract(1, exitCode)
    \/ \E ok \in BOOLEAN : Unlink(1, ok)
    \/ HandleCommandError(1)
    \/ MakeDirectory(1, TRUE)
    \/ OpenTemp(1, TRUE)
    \/ WriteTemp(1, TRUE)
    \/ Rename(1, TRUE)
    \/ Return(1)
    \/ Exit(1)
    \/ Start(1)

SpecFetch == InitFetch /\ [][NextFetch]_vars

----------------------------------------------------------------------------
(* SpecEntries: the commands that read and replace the entries of one cache,
   one invocation after the other, with time passing between them *)

\* time passes between two invocations
Elapse ==
    /\ pc[1] = "ready"
    /\ Tick

InitEntries ==
    /\ universe = {PackageSpec("github", "Vercel/Next.js", None),
                   PackageSpec("github", "vercel/next.js", None)}
    /\ InitDisk(universe)
    /\ InitProcs({1})

NextEntries ==
    \/ \E input \in universe : PathCmd(1, input)
    \/ \E input \in universe : InfoCmd(1, input)
    \/ \E input \in universe : OpenCmd(1, input)
    \/ \E input \in universe, force, isGit, fetched \in BOOLEAN :
          FetchCmd(1, input, force, isGit, fetched, 2000)
    \/ \E fetched \in BOOLEAN : FetchFresh(1, fetched, 2000)
    \/ \E input \in universe, removed \in BOOLEAN : RemoveCmd(1, input, removed)
    \/ MakeDirectory(1, TRUE)
    \/ OpenTemp(1, TRUE)
    \/ WriteTemp(1, TRUE)
    \/ Rename(1, TRUE)
    \/ Return(1)
    \/ Elapse
    \/ Exit(1)
    \/ Start(1)

SpecEntries == InitEntries /\ [][NextEntries]_vars

----------------------------------------------------------------------------
(* SpecLookup: the path command, a call at a time, with the fiber it forks for
   git.fetchRefs, and the info command *)

\* path: registry.parseSpec(spec) and metadata.find(parsedSpec); when nothing
\* is found, "Not cached" on stderr unless --quiet, then NotFoundError, which
\* Effect.catchAll(() => Effect.void) around the handler turns into success
PathCommand(p, input, quiet) ==
    /\ Begin(p, TRUE)
    /\ LET spec == parseSpec(input)
           l == load(p, TRUE)
           existing == findIn(l.index, spec)
           started == [NoRun EXCEPT !.cmd = "path", !.quiet = quiet, !.spec = spec,
                                    !.existing = existing, !.file = files[metadataPath],
                                    !.index = l.index]
       IN  /\ Completes(p, [Found(CommandFrame(p, "path", "find", spec, existing, l),
                                  input, existing)
                               EXCEPT !.next = IF existing = Null THEN "done" ELSE "command"],
                        l.index, l.dirty)
           /\ run' = IF existing = Null
                     THEN [started EXCEPT !.at = "end", !.stderr = ~quiet,
                                          !.status = "success"]
                     ELSE [started EXCEPT !.at = "output"]
    /\ calls' = <<Call("path", "registry.parseSpec"), Call("path", "metadata.find")>>
    /\ temp' = "none"

\* Console.log(existing.path)
PathOutput(p) ==
    /\ Step(p, "output")
    /\ run' = [run EXCEPT !.at = "updateAccessTime", !.stdout = NonNull(run.existing[1].path)]
    /\ Logged(Call("path", "Console.log"))
    /\ UNCHANGED temp

\* metadata.updateAccessTime(parsedSpec)
PathUpdateAccessTime(p) ==
    /\ pc[p] = "command"
    /\ run.cmd = "path"
    /\ run.at = "updateAccessTime"
    /\ LET l == load(p, TRUE)
       IN  Completes(p, [CommandFrame(p, "path", "updateAccessTime", run.spec, "void", l)
                            EXCEPT !.next = "command"],
                     touch(l.index, run.spec, clock), TRUE)
    /\ run' = Go("isGitRepo")
    /\ Logged(Call("path", "metadata.updateAccessTime"))
    /\ UNCHANGED <<temp, faults, called>>

\* git.isGitRepo(existing.path)
PathIsGitRepo(p, isGit) ==
    /\ Step(p, "isGitRepo")
    /\ run.cmd = "path"
    /\ run' = Go(IF isGit THEN "fork" ELSE "return")
    /\ Logged(Call("path", "git.isGitRepo"))
    /\ UNCHANGED temp

\* git.fetchRefs(existing.path).pipe(Effect.catchAll(...), Effect.fork): the
\* fiber is started, the handler goes on
PathFork(p) ==
    /\ Step(p, "fork")
    /\ run' = [run EXCEPT !.at = "return", !.refresh = "running"]
    /\ Logged(Call("path", "git.fetchRefs"))
    /\ UNCHANGED temp

\* a handler that waits for the fiber it started
PathReturn_joining(p) ==
    /\ pc[p] = "command"
    /\ run.at = "return"
    /\ run.refresh # "running"
    /\ pc' = [pc EXCEPT ![p] = "done"]
    /\ run' = [run EXCEPT !.at = "end", !.status = "success"]
    /\ UNCHANGED <<universe, prev, tree, cache, pend, files, clock, faults, called, calls, temp>>

\* the handler returns
PathReturn(p) ==
    /\ pc[p] = "command"
    /\ run.at = "return"
    /\ pc' = [pc EXCEPT ![p] = "done"]
    /\ run' = [run EXCEPT !.at = "end", !.status = "success"]
    /\ UNCHANGED <<universe, prev, tree, cache, pend, files, clock, faults, called, calls, temp>>

\* GitService.fetchRefs in the forked fiber: git fetch --all --prune exits,
\* or waiting for it fails; its error is caught in the fiber
FetchRefs(exitCode) ==
    /\ run.refresh = "running"
    /\ run' = [run EXCEPT !.refresh = IF exitCode = "zero" THEN "succeeded" ELSE "failed"]
    /\ UNCHANGED <<universe, prev, tree, cache, pc, pend, files, clock, faults, called,
                   calls, temp>>

\* Effect.fork: the fiber is a child of the one that runs the command, and is
\* interrupted when that one ends
Interrupt(p) ==
    /\ pc[p] \in {"done", "exited"}
    /\ run.refresh = "running"
    /\ run' = [run EXCEPT !.refresh = "interrupted"]
    /\ UNCHANGED <<universe, prev, tree, cache, pc, pend, files, clock, faults, called,
                   calls, temp>>

\* info, the whole handler: parseSpec and find; "Not cached" on stderr and
\* return when nothing is found; else git.isGitRepo, git.getCurrentRef of a
\* git repository, the output, and metadata.updateAccessTime
InfoCommand(p, input, isGit) ==
    /\ Begin(p, TRUE)
    /\ LET spec == parseSpec(input)
           l == load(p, TRUE)
           existing == findIn(l.index, spec)
           started == [NoRun EXCEPT !.cmd = "info", !.at = "end", !.spec = spec,
                                    !.existing = existing, !.file = files[metadataPath],
                                    !.index = l.index, !.status = "success"]
           found == <<Call("info", "registry.parseSpec"), Call("info", "metadata.find")>>
       IN  IF existing = Null
           THEN /\ Completes(p, Found(CommandFrame(p, "info", "find", spec, existing, l),
                                      input, existing),
                             l.index, l.dirty)
                /\ run' = [started EXCEPT !.stderr = TRUE]
                /\ calls' = found
           ELSE /\ Completes(p, Found(CommandFrame(p, "info", "updateAccessTime", spec,
                                                   "void", l), input, existing),
                             touch(l.index, spec, clock), TRUE)
                /\ run' = [started EXCEPT !.stdout = NonNull(existing[1].path)]
                /\ calls' = found \o <<Call("info", "git.isGitRepo")>>
                              \o (IF isGit THEN <<Call("info", "git.getCurrentRef")>> ELSE <<>>)
                              \o <<Call("info", "Console.log"),
                                   Call("info", "metadata.updateAccessTime")>>
    /\ temp' = "none"

InitLookup ==
    /\ universe = {PackageSpec("github", "vercel/next.js", None),
                   PackageSpec("npm", "lodash", None)}
    /\ InitDisk(universe)
    /\ InitProcs({1})

NextLookup ==
    \/ \E input \in universe, quiet \in BOOLEAN : PathCommand(1, input, quiet)
    \/ PathOutput(1)
    \/ PathUpdateAccessTime(1)
    \/ \E isGit \in BOOLEAN : PathIsGitRepo(1, isGit)
    \/ PathFork(1)
    \/ PathReturn(1)
    \/ \E exitCode \in ExitCodes : FetchRefs(exitCode)
    \/ Interrupt(1)
    \/ \E input \in universe, isGit \in BOOLEAN : InfoCommand(1, input, isGit)
    \/ Return(1)
    \/ Elapse
    \/ Exit(1)
    \/ Start(1)

SpecLookup == InitLookup /\ [][NextLookup]_vars

----------------------------------------------------------------------------
(* SpecPending: one process touches, adds and removes entries of two packages
   while the filesystem calls of a save may fail *)

InitPending ==
    /\ universe = {PackageSpec("npm", "lodash", None), PackageSpec("pypi", "requests", None)}
    /\ InitDisk(universe)
    /\ InitProcs({1})

NextPending ==
    \/ \E spec \in universe : UpdateAccessTime(1, spec, TRUE)
    \/ \E spec \in universe : Add(1, Fetched(spec, 2000), TRUE)
    \/ \E spec \in universe : Remove(1, spec, TRUE)
    \/ \E ok \in BOOLEAN : MakeDirectory(1, ok)
    \/ \E ok \in BOOLEAN : OpenTemp(1, ok)
    \/ \E ok \in BOOLEAN : WriteTemp(1, ok)
    \/ \E ok \in BOOLEAN : Rename(1, ok)
    \/ Return(1)
    \/ Tick

SpecPending == InitPending /\ [][NextPending]_vars

----------------------------------------------------------------------------
(* SpecCache: the commands that fill and empty the cache, one completed
   invocation after the other, with the directories of the cache; the
   metadata file is written without failure *)

\* fs.makeDirectory(path, {recursive: true}) in a tree of directories
madeDirectory(t, path) ==
    [q \in DOMAIN t \cup {SubSeq(path, 1, n) : n \in 1..Len(path)} |->
        IF q \in DOMAIN t THEN t[q] ELSE "Directory"]

\* what is at one of the paths or below it
below(t, paths) ==
    {q \in DOMAIN t : \E path \in paths :
        Len(q) >= Len(path) /\ SubSeq(q, 1, Len(path)) = path}

\* fs.remove(path, {recursive: true}) of every one of the paths that exists
removedPaths(t, paths) == [q \in DOMAIN t \ below(t, paths) |-> t[q]]

\* git clone or tar has written into the directory
written(t, path) ==
    [q \in DOMAIN t \cup {Append(path, "files")} |-> IF q \in DOMAIN t THEN t[q] ELSE "File"]

\* the metadata file after a command: save is called when the index changed
savedIndex(before, after) ==
    IF after = before
    THEN files
    ELSE [files EXCEPT ![metadataPath] = Full(after)]

\* a command that is one step: it uses no memory of an earlier one
Invocation ==
    /\ pc[1] = "ready"
    /\ cache[1].index = Null
    /\ UNCHANGED <<run, calls, temp, universe, prev, cache, pc, pend, clock, faults, called>>

\* the outcomes of registry.fetch: it succeeds, it fails with destPath as
\* ensureDir left it, or it fails after tar has extracted a part
FetchOutcomes == {"fetched", "failed", "failedPartly"}

\* fetch: a cached entry without --force is updated or only looked at, and
\* the directories stay; otherwise the entry goes with its directory, the
\* directory of destPath is made, registry.fetch runs, and its success is
\* recorded
FetchInvocation(input, force, isGit, outcome, size) ==
    /\ Invocation
    /\ LET spec == parseSpec(input)
           index == loadFromDisk(TRUE)
           existing == findIn(index, spec)
           destPath == normalizedPath(spec)
       IN  IF existing # Null /\ ~force
           THEN /\ tree' = tree
                /\ files' = IF isGit
                            THEN [files EXCEPT ![metadataPath] =
                                    Full(addTo(index,
                                        [spec |-> spec, fetchedAt |-> existing[1].fetchedAt,
                                         lastAccessedAt |-> toISOString(clock),
                                         sizeBytes |-> size, path |-> existing[1].path]))]
                            ELSE files
           ELSE LET kept == IF existing # Null
                            THEN [index EXCEPT !.repos = withoutSpec(index.repos, spec)]
                            ELSE index
                    emptied == IF existing # Null
                               THEN removedPaths(tree, {existing[1].path})
                               ELSE tree
                    made == madeDirectory(emptied, destPath)
               IN  /\ Len(kept.repos) < MaxRepos
                   /\ tree' = IF outcome = "failed" THEN made ELSE written(made, destPath)
                   /\ files' = IF outcome = "fetched"
                               THEN [files EXCEPT ![metadataPath] =
                                        Full(addTo(kept, Fetched(spec, size)))]
                               ELSE savedIndex(index, kept)

\* remove: the directory of a cached entry, then the entry
RemoveInvocation(input) ==
    /\ Invocation
    /\ LET spec == parseSpec(input)
           index == loadFromDisk(TRUE)
           existing == findIn(index, spec)
       IN  IF existing = Null
           THEN UNCHANGED <<tree, files>>
           ELSE /\ tree' = removedPaths(tree, {existing[1].path})
                /\ files' = [files EXCEPT ![metadataPath] =
                                Full([index EXCEPT !.repos = withoutSpec(index.repos, spec)])]

\* prune --days and --max-size without --dry-run: for every entry the filters
\* leave, cache.remove(repo.path) and metadata.remove(repo.spec)
PruneInvocation(byDays, days, byMaxSize, maxBytes) ==
    /\ Invocation
    /\ byDays \/ byMaxSize
    /\ LET index == loadFromDisk(TRUE)
           old == IF byDays THEN [index EXCEPT !.repos = olderThan(index, days, clock)] ELSE index
           toRemove == IF byMaxSize THEN largerThan(old, maxBytes) ELSE old.repos
           paths == {toRemove[i].path : i \in 1..Len(toRemove)}
           specs == {toRemove[i].spec : i \in 1..Len(toRemove)}
       IN  /\ tree' = removedPaths(tree, paths)
           /\ files' = savedIndex(index, [index EXCEPT !.repos = withoutSpecs(index.repos, specs)])

\* clean --yes: cache.removeAll() and metadata.save of the empty index, when
\* the index has an entry
CleanInvocation(yes) ==
    /\ Invocation
    /\ LET index == loadFromDisk(TRUE)
       IN  IF Len(index.repos) = 0 \/ ~yes
           THEN UNCHANGED <<tree, files>>
           ELSE /\ tree' = [q \in {<<"cacheDir">>} |-> "Directory"]
                /\ files' = [files EXCEPT ![metadataPath] = Full(EmptyIndex)]

\* an empty cache: the cache root, made when the cache layer is built, and no
\* metadata file
InitCache ==
    /\ universe = {PackageSpec("github", "Vercel/Next.js", None),
                   PackageSpec("npm", "lodash", None),
                   PackageSpec("npm", "lodash", Some("4.17.21"))}
    /\ files = [path \in Paths |-> Absent]
    /\ cache = [p \in Procs |-> CacheState(Null, FALSE)]
    /\ pc = [p \in Procs |-> IF p = 1 THEN "ready" ELSE "exited"]
    /\ pend = [p \in Procs |-> NoFrame]
    /\ clock = 0
    /\ faults = 0
    /\ called = [p \in Procs |-> FALSE]
    /\ prev = NoFrame
    /\ tree = [q \in {<<"cacheDir">>} |-> "Directory"]
    /\ run = NoRun
    /\ calls = <<>>
    /\ temp = "none"

NextCache ==
    \/ \E input \in universe, force, isGit \in BOOLEAN, outcome \in FetchOutcomes, size \in Sizes :
          FetchInvocation(input, force, isGit, outcome, size)
    \/ \E input \in universe : RemoveInvocation(input)
    \/ \E byDays, byMaxSize \in BOOLEAN : PruneInvocation(byDays, 0, byMaxSize, 1000)
    \/ \E yes \in BOOLEAN : CleanInvocation(yes)
    \/ Elapse

SpecCache == InitCache /\ [][NextCache]_vars

----------------------------------------------------------------------------
(* SpecFibers: two fibers of one process call add at the same time. They
   share cacheRef, which is cache[1]; a fiber runs until it waits for the
   filesystem *)

\* add in fiber f, up to its first wait: Ref.get(cacheRef) in load; with an
\* index in memory the new index is computed and set, and saveToDisk begins;
\* without one the fiber waits in loadFromDisk
AddStart(f, metadata) ==
    /\ pc[f] = "ready"
    /\ called' = [called EXCEPT ![f] = TRUE]
    /\ LET l == load(1, TRUE)
           frame == Frame(f, "add", metadata, "void", l, TRUE)
       IN  IF cache[1].index # Null
           THEN /\ cache' = [cache EXCEPT ![1] =
                                CacheState(NonNull(addTo(l.index, metadata)), FALSE)]
                /\ pend' = [pend EXCEPT ![f] = [frame EXCEPT !.index = addTo(l.index, metadata)]]
                /\ pc' = [pc EXCEPT ![f] = "mkdir"]
           ELSE /\ pend' = [pend EXCEPT ![f] = frame]
                /\ pc' = [pc EXCEPT ![f] = "reading"]
                /\ UNCHANGED cache
    /\ UNCHANGED <<run, calls, temp, universe, prev, tree, files, clock, faults>>

\* loadFromDisk has read the file: Ref.set(cacheRef, {index, dirty: false}) in
\* load, then the new index is computed from what was read and set by save
AddResume(f) ==
    /\ pc[f] = "reading"
    /\ LET index == loadFromDisk(TRUE)
           newIndex == addTo(index, pend[f].arg)
       IN  /\ cache' = [cache EXCEPT ![1] = CacheState(NonNull(newIndex), FALSE)]
           /\ pend' = [pend EXCEPT ![f] = [@ EXCEPT !.before = index, !.index = newIndex]]
    /\ pc' = [pc EXCEPT ![f] = "mkdir"]
    /\ UNCHANGED <<run, calls, temp, universe, prev, tree, files, clock, faults, called>>

InitFibers ==
    /\ universe = {PackageSpec("npm", "lodash", None), PackageSpec("pypi", "requests", None)}
    /\ InitDisk(universe)
    /\ InitProcs(Procs)

NextFibers ==
    \/ \E f \in Procs, spec \in universe : AddStart(f, Fetched(spec, 2000))
    \/ \E f \in Procs : AddResume(f)
    \/ \E f \in Procs : MakeDirectory(f, TRUE)
    \/ \E f \in Procs : OpenTemp(f, TRUE)
    \/ \E f \in Procs : WriteTemp(f, TRUE)
    \/ \E f \in Procs : Rename(f, TRUE)
    \/ \E f \in Procs : Return(f)

SpecFibers == InitFibers /\ [][NextFibers]_vars

----------------------------------------------------------------------------
(* What the properties below are stated with *)

\* specification-equality as the contract of the index words it
SameSpecification(a, b) ==
    /\ a.registry = b.registry
    /\ getOrElse(a.version, "") = getOrElse(b.version, "")
    /\ IF a.registry = "github"
       THEN toLowerCase(a.name) = toLowerCase(b.name)
       ELSE a.name = b.name

\* the entries of an index, and those equal to a specification
Entries(index) == {index.repos[i] : i \in 1..Len(index.repos)}
Matching(index, spec) ==
    {i \in 1..Len(index.repos) : SameSpecification(index.repos[i].spec, spec)}

\* an operation of process p has done its work and is about to return
Returning(p, op) == pc[p] = "returning" /\ pend[p].op = op

\* C1: atomic persistence. The metadata file changes in one step only, the
\* rename that ends a successful save, and then holds the complete
\* serialization of the saved index, which the next load decodes to that
\* index; every other step, a failure or a kill in the middle of a save
\* included, leaves the file and what a load reads from it as they were.
AtomicPersistence ==
    [][ \/ /\ files'[metadataPath] = files[metadataPath]
           /\ loadFromDisk(TRUE)' = loadFromDisk(TRUE)
        \/ \E p \in Procs :
              /\ pc[p] = "rename" /\ pc'[p] = "returning"
              /\ ~pend'[p].failed
              /\ files'[metadataPath] = Full(pend[p].index)
              /\ loadFromDisk(TRUE)' = pend[p].index ]_vars

\* an add was interrupted after it opened its temporary file: the metadata
\* file still holds the complete index of before the add
AtomicPersistenceWitness ==
    /\ Returning(1, "add")
    /\ pend[1].failed
    /\ files[tempPath(pend[1].now)] = Leftover
    /\ pend[1].index # pend[1].before
    /\ files[metadataPath] = Full(pend[1].before)

\* C2: idempotent add. When add(e) returns, find(e.spec) gives e and exactly
\* one entry of the index equals e.spec, whatever entry equal to it the index
\* held before.
IdempotentAdd ==
    \A p \in Procs : Returning(p, "add") =>
        LET e == pend[p].arg
            index == cache[p].index[1]
        IN  /\ findIn(index, e.spec) = NonNull(e)
            /\ Cardinality(Matching(index, e.spec)) = 1

\* add(e2) returns where the index held an e1 of an equal specification and
\* another size
IdempotentAddWitness ==
    /\ Returning(1, "add")
    /\ \E r \in Entries(pend[1].before) :
          /\ SameSpecification(r.spec, pend[1].arg.spec)
          /\ r.sizeBytes # pend[1].arg.sizeBytes

\* C3: uniqueness. No index in memory holds two entries with equal
\* specifications.
UniqueSpecifications ==
    \A p \in Procs : cache[p].index # Null =>
        LET index == cache[p].index[1]
        IN  \A i, j \in 1..Len(index.repos) :
                i # j => ~SameSpecification(index.repos[i].spec, index.repos[j].spec)

\* C4: specification-equality. find, add and remove take two specifications
\* for the same one exactly when their registries are equal, their versions are
\* equal with an absent version read as the empty string, and their names are
\* equal, without regard to case for github and with regard to it elsewhere.
SpecificationEquality ==
    \A p \in Procs : pc[p] = "returning" =>
        LET f == pend[p]
            after == cache[p].index[1]
        IN  /\ f.op = "find" =>
                /\ (f.ret # Null) <=>
                      (\E r \in Entries(f.before) : SameSpecification(r.spec, f.arg))
                /\ f.ret # Null => SameSpecification(f.ret[1].spec, f.arg)
            /\ f.op = "add" =>
                Entries(after) =
                    {r \in Entries(f.before) : ~SameSpecification(r.spec, f.arg.spec)}
                    \cup {f.arg}
            /\ f.op = "remove" =>
                /\ f.ret = (\E r \in Entries(f.before) : SameSpecification(r.spec, f.arg))
                /\ Entries(after) =
                      {r \in Entries(f.before) : ~SameSpecification(r.spec, f.arg)}

\* find of github vercel/next.js gives the entry recorded as Vercel/Next.js
SpecificationEqualityWitness ==
    /\ Returning(1, "find")
    /\ pend[1].arg = PackageSpec("github", "vercel/next.js", None)
    /\ pend[1].ret # Null
    /\ pend[1].ret[1].spec.name = "Vercel/Next.js"

\* C5: multi-process race. While two invocations load, change and save at the
\* same time, the metadata file changes only in the rename of one of them, and
\* then holds the complete index that invocation saved: no step leaves in it a
\* truncated file or the bytes of the other invocation, whether or not the two
\* named their temporary files at the same clock value.
RaceLeavesCompleteIndex ==
    [][ files'[metadataPath] # files[metadataPath] =>
            \E p \in Procs :
                /\ pc[p] = "rename" /\ pc'[p] = "returning"
                /\ files'[metadataPath] = Full(pend[p].index) ]_vars

\* the index updateAccessTime(spec) at time now is to leave in memory
Touched(index, spec, now) ==
    [index EXCEPT !.repos =
        [i \in 1..Len(index.repos) |->
            IF SameSpecification(index.repos[i].spec, spec)
            THEN [index.repos[i] EXCEPT !.lastAccessedAt = toISOString(now)]
            ELSE index.repos[i]]]

\* C6: lazy access-time update. The step in which updateAccessTime(spec) runs
\* ends the operation, leaves every file as it was, sets the dirty flag, and
\* leaves in memory the index whose entries equal to spec have the current
\* time as lastAccessedAt.
UpdateAccessTimeIsLazy ==
    [][ \A p \in Procs :
          (pend'[p].op = "updateAccessTime" /\ pend[p].op # "updateAccessTime") =>
              /\ pc'[p] = "returning"
              /\ files' = files
              /\ cache'[p].dirty
              /\ cache'[p].index =
                    NonNull(Touched(pend'[p].before, pend'[p].arg, clock)) ]_vars

\* updateAccessTime has changed an entry in memory and set the flag while the
\* metadata file still holds the index of before
UpdateAccessTimeIsLazyWitness ==
    /\ Returning(1, "updateAccessTime")
    /\ cache[1].dirty
    /\ cache[1].index # NonNull(pend[1].before)
    /\ files[metadataPath] = Full(pend[1].before)

\* C7: flush. A flush that found the dirty flag set returns with the in-memory
\* index in the metadata file and the flag clear; one that found it clear
\* returns with the index and the flag as they were.
FlushPersists ==
    \A p \in Procs : Returning(p, "flush") =>
        IF pend[p].ret = "saved"
        THEN /\ ~cache[p].dirty
             /\ files[metadataPath] = Full(cache[p].index[1])
        ELSE /\ ~cache[p].dirty
             /\ cache[p].index # Null => cache[p].index[1] = pend[p].before

\* C8: flush at shutdown. When the command of an invocation that called
\* updateAccessTime is over and the process is about to end, the dirty flag is
\* clear and the metadata file holds the index with the updated access time.
FlushAtShutdown ==
    \A p \in Procs : pc[p] = "done" /\ pend[p].op = "updateAccessTime" =>
        /\ ~cache[p].dirty
        /\ files[metadataPath] = Full(cache[p].index[1])

\* C9: write-path failures propagate. An operation whose save met a failing
\* filesystem call returns a failure to its caller.
WriteFailuresPropagate ==
    \A p \in Procs : pc[p] = "returning" /\ pend[p].failed =>
        pend[p].outcome = "failure"

\* C10: load never fails. Every operation that loads the index succeeds in
\* it; the first load of a process reads the metadata file and gives the empty
\* index when the file is missing, unreadable or holds no valid index, and the
\* decoded file otherwise; every later load reads no file and gives the
\* in-memory index.
LoadNeverFails ==
    \A p \in Procs : pc[p] = "returning" /\ pend[p].op \notin {"none", "flush", "save"} =>
        LET f == pend[p]
        IN  /\ f.first <=> f.readDisk
            /\ f.op = "load" =>
                /\ f.outcome = "success"
                /\ f.ret = cache[p].index[1]
                /\ f.readDisk =>
                      IF \/ ~f.readOk
                         \/ files[metadataPath].tag # "full"
                      THEN f.ret = EmptyIndex
                      ELSE f.ret = decodeIndex(files[metadataPath].json[1])

\* the first load of a process found a file that decodes to no index and gave
\* the empty index
LoadNeverFailsWitness ==
    /\ Returning(1, "load")
    /\ pend[1].first
    /\ files[metadataPath] = Garbage
    /\ pend[1].ret = EmptyIndex

\* C11: remove. The step in which remove(spec) runs returns true exactly when
\* the index held an entry equal to spec, and leaves an index in which find(spec)
\* gives nothing; when it returns false the operation is over at once and the
\* in-memory index, the dirty flag and every file are as they were.
RemoveReports ==
    [][ \A p \in Procs :
          (pend'[p].op = "remove" /\ pend[p].op # "remove") =>
              LET f == pend'[p]
                  held == \E r \in Entries(f.before) : SameSpecification(r.spec, f.arg)
              IN  /\ f.ret = held
                  /\ findIn(cache'[p].index[1], f.arg) = Null
                  /\ ~held =>
                        /\ pc'[p] = "returning"
                        /\ files' = files
                        /\ cache'[p].dirty = cache[p].dirty
                        /\ cache'[p].index = NonNull(f.before)
                        /\ cache[p].index # Null => cache'[p].index = cache[p].index ]_vars

\* remove of a specification the index does not hold returned false and left
\* the entries and a set dirty flag alone
RemoveReportsWitness ==
    /\ Returning(1, "remove")
    /\ pend[1].ret = FALSE
    /\ pend[1].before.repos # <<>>
    /\ cache[1].dirty
    /\ cache[1].index = NonNull(pend[1].before)

\* what one add and one remove leave of an index
AddedOne(index, e) ==
    [index EXCEPT !.repos =
        Append(SelectSeq(index.repos, LAMBDA r : ~SameSpecification(r.spec, e.spec)), e)]
RemovedOne(index, spec) ==
    [index EXCEPT !.repos = SelectSeq(index.repos, LAMBDA r : ~SameSpecification(r.spec, spec))]

\* add on each element of a list in order, remove on each of some specifications
RECURSIVE AddedInOrder(_, _)
AddedInOrder(index, list) ==
    IF list = <<>> THEN index ELSE AddedInOrder(AddedOne(index, Head(list)), Tail(list))
RECURSIVE RemovedEach(_, _)
RemovedEach(index, specs) ==
    IF specs = {} THEN index
    ELSE LET spec == CHOOSE x \in specs : TRUE
         IN  RemovedEach(RemovedOne(index, spec), specs \ {spec})

\* C12: batched operations. addMany(list) returns with the index that add on
\* each element in order leaves, removeMany(specs) with the index that remove on
\* each specification leaves and with the number of entries gone; while either
\* is running the metadata file changes in its one rename only.
BatchedAsSequential ==
    [][ \A p \in Procs :
          /\ pc'[p] = "returning" /\ pend'[p].op = "addMany" =>
                cache'[p].index = NonNull(AddedInOrder(pend'[p].before, pend'[p].arg))
          /\ pc'[p] = "returning" /\ pend'[p].op = "removeMany" =>
                /\ cache'[p].index = NonNull(RemovedEach(pend'[p].before, pend'[p].arg))
                /\ pend'[p].ret = Len(pend'[p].before.repos)
                                   - Len(RemovedEach(pend'[p].before, pend'[p].arg).repos)
          /\ pend[p].op \in {"addMany", "removeMany"}
             /\ files'[metadataPath] # files[metadataPath] =>
                /\ pc[p] = "rename" /\ pc'[p] = "returning"
                /\ files'[metadataPath] = Full(cache'[p].index[1]) ]_vars

\* addMany of a list that names one specification twice has returned: the
\* later element is in the index and in the metadata file, the earlier is not
BatchedAsSequentialWitness ==
    /\ Returning(1, "addMany")
    /\ Len(pend[1].arg) = 2
    /\ SameSpecification(pend[1].arg[1].spec, pend[1].arg[2].spec)
    /\ pend[1].arg[2] \in Entries(cache[1].index[1])
    /\ pend[1].arg[1] \notin Entries(cache[1].index[1])
    /\ files[metadataPath] = Full(cache[1].index[1])

\* C13: the filters. findOlderThan(days) returns, in the order of the index,
\* exactly the entries whose lastAccessedAt is a time strictly before now minus
\* days, findLargerThan(bytes) exactly those whose sizeBytes is strictly greater
\* than bytes; the step leaves the index, the dirty flag and every file as they
\* were, so that what one filter returns does not depend on calls of the other.
FiltersAreExact ==
    [][ \A p \in Procs :
          LET f == pend'[p]
              kept(keep(_)) == SelectSeq(f.before.repos, keep)
              old(r) == /\ r.lastAccessedAt[1] = "iso"
                        /\ r.lastAccessedAt[2] < f.now - f.arg * msPerDay
              large(r) == r.sizeBytes > f.arg
              asItWas == /\ files' = files
                         /\ cache'[p].dirty = cache[p].dirty
                         /\ cache'[p].index = NonNull(f.before)
                         /\ cache[p].index # Null => cache'[p].index = cache[p].index
          IN  /\ f.op = "findOlderThan" /\ pend[p].op # "findOlderThan" =>
                    f.ret = kept(old) /\ asItWas
              /\ f.op = "findLargerThan" /\ pend[p].op # "findLargerThan" =>
                    f.ret = kept(large) /\ asItWas ]_vars

\* findOlderThan(1) has left out an entry accessed exactly at the cutoff and
\* returned one accessed a millisecond before it
FiltersAreExactWitness ==
    /\ Returning(1, "findOlderThan")
    /\ pend[1].arg = 1
    /\ Len(pend[1].ret) = 1
    /\ Len(pend[1].before.repos) = 2
    /\ \E r \in Entries(pend[1].before) :
          r.lastAccessedAt = toISOString(pend[1].now - msPerDay)
    /\ pend[1].ret[1].lastAccessedAt = toISOString(pend[1].now - msPerDay - 1)

\* a path holds a name
Contains(path, name) == \E i \in 1..Len(path) : path[i] = name

\* the invocation before ended a fetch that added an entry and reported success
FetchedBefore == prev.cmd = "fetch" /\ prev.op = "add" /\ prev.outcome = "success"

\* C14: fetch then path. When the invocation after a successful fetch of a
\* specification runs path for the same specification, it prints the path the
\* fetch recorded, which holds the name of the specification, and leaves the
\* entry with a lastAccessedAt not earlier than the one the fetch recorded.
FetchThenPath ==
    \A p \in Procs :
        /\ pc[p] \in {"returning", "done"}
        /\ pend[p].cmd = "path"
        /\ FetchedBefore
        /\ prev.arg.spec = pend[p].arg
        => /\ pend[p].op = "updateAccessTime"
           /\ pend[p].out = NonNull(prev.arg.path)
           /\ Contains(prev.arg.path, pend[p].arg.name)
           /\ \E r \in Entries(cache[p].index[1]) :
                 /\ r.spec = pend[p].arg
                 /\ ~getTime(r.lastAccessedAt).nan
                 /\ getTime(r.lastAccessedAt).ms >= getTime(prev.arg.lastAccessedAt).ms

\* two inputs differ in letter case at most
SameButCase(a, b) ==
    /\ a.registry = b.registry
    /\ toLowerCase(a.name) = toLowerCase(b.name)
    /\ a.version = b.version

\* C15: case-insensitive lookup end to end. When the invocation after a
\* successful fetch of a github input runs path, info or remove with an input
\* that differs from it in letter case at most, the command finds the entry the
\* fetch recorded; and each of these commands finds an entry of the index whose
\* github name equals the name it is given up to letter case.
CaseInsensitiveLookup ==
    \A p \in Procs :
        pc[p] \in {"returning", "done"} /\ pend[p].cmd \in {"path", "info", "remove"} =>
            /\ /\ FetchedBefore
               /\ prev.input[1].registry = "github"
               /\ SameButCase(prev.input[1], pend[p].input[1])
               => /\ prev.arg \in Entries(pend[p].before)
                  /\ pend[p].out = NonNull(prev.arg.path)
            /\ (\E r \in Entries(pend[p].before) :
                  r.spec.registry = "github" /\ SameButCase(r.spec, pend[p].input[1]))
               => pend[p].out # Null

\* process p takes the step in which getPath resolves a specification
Resolves(p) == pc[p] = "ready" /\ pc'[p] = "returning" /\ pend'[p].op = "getPath"

\* the directories <root>/E/R of the cache directory whose E is a directory
\* that equals owner and whose R equals repo, both ignoring case
LegacyCased(owner, repo) ==
    {path \in DOMAIN tree :
        /\ Len(path) = 2
        /\ tree[<<path[1]>>] = "Directory"
        /\ lowerCase(path[1]) = lowerCase(owner)
        /\ lowerCase(path[2]) = lowerCase(repo)}

\* one path is the other or lies inside it
Inside(a, b) == Len(a) >= Len(b) /\ SubSeq(a, 1, Len(b)) = b

\* specification-equality of two specifications whose names are texts
EqualSpecifications(a, b) ==
    /\ a.registry = b.registry
    /\ a.version = b.version
    /\ IF a.registry = "github" THEN lowerCase(a.name) = lowerCase(b.name) ELSE a.name = b.name

GetPathNeverFails ==
    [][\A p \in Procs : (Resolves(p) /\ ~pend'[p].readOk) =>
        /\ pend'[p].outcome = "success"
        /\ pend'[p].ret = joinPath(<<pend'[p].arg.name>>)]_vars

\* C18: the path resolver only reads. The step in which getPath resolves a
\* specification leaves every entry of the cache directory as it was: none
\* made, none removed, none changed.
GetPathOnlyReads ==
    [][\A p \in Procs : Resolves(p) => tree' = tree]_vars

\* getPath has returned a path at which there is nothing
GetPathOnlyReadsWitness ==
    \E p \in Procs :
        /\ Returning(p, "getPath")
        /\ pend[p].outcome = "success"
        /\ ~treeExists(pend[p].ret)

\* C19: paths do not collide. The path getPath returns for a specification
\* is not the path it returns for a specification that is not equal to it,
\* and neither of the two lies inside the other.
PathsDoNotCollide ==
    [][\A p \in Procs : (Resolves(p) /\ pend'[p].outcome = "success") =>
        \A other \in PathSpecs : ~EqualSpecifications(pend'[p].arg, other) =>
            \A path \in getPath(other) :
                ~Inside(pend'[p].ret, path) /\ ~Inside(path, pend'[p].ret)]_vars

\* C20: the parser round-trips. When parseSpec accepts a text, parsing what
\* specToString prints for the result is accepted and gives the same
\* registry, name and version.
ParserRoundTrip ==
    \A p \in Procs : (Returning(p, "parseSpec") /\ pend[p].out # Null) =>
        LET again == parseSpecSync(pend[p].out[1])
        IN  /\ again.ok
            /\ again.spec.registry = pend[p].ret.spec.registry
            /\ again.spec.name = pend[p].ret.spec.name
            /\ again.spec.version = pend[p].ret.spec.version

\* a parser has returned to process p
Parsing(p) == pc[p] = "returning" /\ pend[p].op \in {"parseSpec", "registry.parseSpec"}

\* text a holds text b as typed
Holds(a, b) == \E i \in 0..(Len(a) - Len(b)) : SubSeq(a, i + 1, i + Len(b)) = b

\* C21: case normalization at parse time. The name of a GitHub specification
\* that a parser returns, whichever entry point parsed it, is its own lower
\* case form; the name of a specification of a package registry is in the
\* input as it was typed.
NormalizedAtParseTime ==
    \A p \in Procs : (Parsing(p) /\ pend[p].ret.ok) =>
        LET spec == pend[p].ret.spec
        IN  IF spec.registry = "github"
            THEN spec.name = lowerCase(spec.name)
            ELSE Holds(pend[p].arg, spec.name)

\* C22: the name of a GitHub identifier has exactly one "/". A parser
\* accepts a GitHub identifier only when the text before its first @ or #
\* has one "/" and no more, and what it rejects fails with SpecParseError.
ExactlyOneSlash ==
    \A p \in Procs : Parsing(p) =>
        /\ (pend[p].ret.ok /\ pend[p].ret.spec.registry = "github") =>
              Cardinality({i \in 1..Len(pend[p].ret.spec.name) :
                              pend[p].ret.spec.name[i] = "/"}) = 1
        /\ ~pend[p].ret.ok => pend[p].outcome = "SpecParseError"

----------------------------------------------------------------------------
(* The fetch command and registry.fetch *)

\* the calls of a kind that the command has made so far, in their order
CallsBy(by) == SelectSeq(calls, LAMBDA c : c.by = by)
CallsOf(call) == SelectSeq(calls, LAMBDA c : c.call = call)
Clones == CallsBy("git")

\* the command of process 1 has ended
Ended == pc[1] = "done" /\ run.at = "end"

Resolved == run.source = "package" /\ run.response = "data" /\ run.listed

ExtractionOver == run.at \notin {"write", "tar", "unlink"}

TempArchiveCleaned ==
    (Len(CallsOf("Bun.write")) = 1 /\ ExtractionOver) =>
        /\ (Len(CallsOf("unlink")) = 0 \/ CallsOf("unlink")[1].result = "zero") =>
              temp = "none"
        /\ Len(CallsOf("unlink")) = 1 =>
              (run.error = NoError <=> CallsOf("tar")[1].result = "zero")

\* C26: version not found. For npm, PyPI and crates.io alike, when the
\* registry answers and the version asked for (or the latest, when none is
\* asked for) is not among the versions it lists, registry.fetch fails with a
\* RegistryError of operation resolve-version, and neither a checkout nor an
\* archive download has been attempted.
VersionNotFound ==
    (/\ run.source = "package"
     /\ ~run.listed
     /\ \/ run.response = "data"
        \/ run.spec.registry = "pypi" /\ run.response = "http") =>
        /\ run.error = Error("RegistryError", "resolve-version")
        /\ Len(Clones) = 0
        /\ Len(CallsOf("download archive")) = 0

\* C27: bounded attempts. One registry.fetch makes at most one metadata
\* request, at most one clone at the requested or derived ref and at most one
\* retry of it without the ref, and at most one download and extraction of
\* an archive; after the download or the extraction failed nothing more is
\* attempted; and it ends either in success or with exactly one error.
ArchiveErrors ==
    {Error("RegistryError", "download-tarball"), Error("RegistryError", "read-tarball"),
     Error("RegistryError", "write-temp"), Error("RegistryError", "extract-tarball")}

RegistryCalls == SelectSeq(calls, LAMBDA c : c.by \in {"registry", "git"})

\* registry.fetch has returned: the command is past it
FetchSucceeded == Len(CallsOf("registry.fetch")) = 1 /\ Len(CallsOf("cache.getSize")) = 1
FetchFailed == Len(CallsOf("registry.fetch")) = 1 /\ run.error # NoError

BoundedAttempts ==
    /\ Len(CallsOf("registry.fetch")) <= 1
    /\ Len(CallsOf("fetch metadata")) <= 1
    /\ Len(SelectSeq(Clones, LAMBDA c : c.ref)) <= 1
    /\ Len(SelectSeq(Clones, LAMBDA c : ~c.ref)) <= 1
    /\ Len(Clones) = 2 => Clones[1].ref /\ ~Clones[2].ref
    /\ Len(CallsOf("download archive")) <= 1
    /\ Len(CallsOf("Bun.write")) <= 1
    /\ Len(CallsOf("tar")) <= 1
    /\ Len(CallsOf("unlink")) <= 1
    /\ \A i \in 1..Len(calls) :
          calls[i].call = "download archive" =>
              \A j \in (i + 1)..Len(calls) :
                  calls[j].call \notin {"fetch metadata", "git clone", "download archive"}
    /\ (run.error \in ArchiveErrors \/
        (run.error = Error("NetworkError", "") /\ Len(CallsOf("download archive")) = 1)) =>
          /\ calls[Len(calls)].call \in {"download archive", "Bun.write", "tar", "unlink"}
          /\ run.at \in {"failed", "end"}
    /\ ~(FetchSucceeded /\ FetchFailed)
    /\ run.at \in {"failed", "end"} /\ Len(CallsOf("registry.fetch")) = 1 =>
          (FetchSucceeded \/ FetchFailed)

\* a fetch that used every attempt it has: the metadata, the clone of the
\* tag, the clone without it, the archive, whose extraction failed
BoundedAttemptsWitness ==
    /\ Len(CallsOf("fetch metadata")) = 1
    /\ Len(Clones) = 2
    /\ Len(CallsOf("download archive")) = 1
    /\ Len(CallsOf("tar")) = 1
    /\ run.error = Error("RegistryError", "extract-tarball")
    /\ Ended

\* C28: order of a fresh fetch. A fetch of a specification that has no entry
\* calls, in this order, registry.parseSpec, metadata.find, cache.getPath,
\* cache.ensureDir, registry.fetch, cache.getSize, git.isGitRepo and
\* metadata.add (git.getCurrentRef, asked of a git repository only, aside);
\* and no fresh fetch, forced ones included, calls metadata.add before
\* registry.fetch has succeeded.
FreshOrder ==
    <<"registry.parseSpec", "metadata.find", "cache.getPath", "cache.ensureDir",
      "registry.fetch", "cache.getSize", "git.isGitRepo", "metadata.add">>

FetchCalls == SelectSeq(calls, LAMBDA c : c.by = "fetch" /\ c.call # "git.getCurrentRef")

IsPrefix(s, t) == Len(s) <= Len(t) /\ \A i \in 1..Len(s) : s[i] = t[i]

FreshFetchOrder ==
    /\ (run.at # "none" /\ run.existing = Null) =>
          IsPrefix([i \in 1..Len(FetchCalls) |-> FetchCalls[i].call], FreshOrder)
    /\ (run.fresh /\ Len(CallsOf("metadata.add")) > 0) =>
          /\ Len(CallsOf("metadata.add")) = 1
          /\ \E i, j \in 1..Len(calls) :
                i < j /\ calls[i].call = "registry.fetch" /\ calls[j].call = "metadata.add"
          /\ run.error = NoError
          /\ \/ run.cloneResult = "Right"
             \/ Len(CallsOf("tar")) = 1 /\ CallsOf("tar")[1].result = "zero"

\* a fresh fetch of a GitHub repository has made all eight calls and ended
FreshFetchOrderWitness ==
    /\ run.existing = Null
    /\ run.source = "github"
    /\ Len(FetchCalls) = 8
    /\ FetchCalls[8].call = "metadata.add"
    /\ Ended

\* C29: a failed fetch leaves no trace in the index. When registry.fetch
\* fails during a fresh fetch of a specification that had no entry, the
\* metadata file and the index in memory are what they were when the command
\* began, and nothing is left to be flushed.
FailedFetchLeavesIndex ==
    (FetchFailed /\ run.fresh /\ run.existing = Null) =>
        /\ files[metadataPath] = run.file
        /\ Len(CallsOf("metadata.add")) = 0
        /\ pc[1] \in {"command", "done"} =>
              /\ cache[1].index = NonNull(run.index)
              /\ ~cache[1].dirty

\* the clone of a GitHub repository that had no entry failed and the command
\* has ended with that error
FailedFetchLeavesIndexWitness ==
    /\ FetchFailed
    /\ run.existing = Null
    /\ run.error = Error("RegistryError", "clone")
    /\ Ended

\* C30: update of a cached checkout. A fetch without --force of a
\* specification whose entry is a git checkout never calls registry.fetch:
\* it calls git.update on the recorded path and then, whether or not the
\* update failed, replaces the entry through metadata.add, so that the index
\* holds exactly one entry for the specification, with the path that the
\* entry had before.
Updated == Len(CallsOf("git.update")) = 1

UpdateKeepsEntry ==
    /\ (run.at # "none" /\ run.existing # Null /\ ~run.force) =>
          Len(CallsOf("registry.fetch")) = 0
    /\ Len(CallsOf("git.update")) <= 1
    /\ Updated => run.existing # Null /\ ~run.force /\ ~run.fresh
    /\ (Updated /\ run.at = "end") =>
          \E i, j \in 1..Len(calls) :
              i < j /\ calls[i].call = "git.update" /\ calls[j].call = "metadata.add"
    /\ (Updated /\ Ended) =>
          LET index == cache[1].index[1]
              m == Matching(index, run.spec)
          IN  /\ Cardinality(m) = 1
              /\ \A i \in m :
                    /\ index.repos[i].path = run.existing[1].path
                    /\ index.repos[i].sizeBytes = run.sizeBytes
              /\ Len(index.repos) = Len(run.index.repos)
              /\ files[metadataPath] = Full(index)

\* the update of a cached checkout failed and the command has ended with the
\* entry replaced
UpdateKeepsEntryWitness ==
    /\ Updated
    /\ CallsOf("git.update")[1].result = "nonzero"
    /\ Len(CallsOf("metadata.add")) = 1
    /\ run.existing[1].path # run.destPath
    /\ Ended

----------------------------------------------------------------------------
(* The parser, again *)

\* C40: no empty names. The name of every specification that parseSpec
\* returns, of whichever registry, still has a character after trimming;
\* an input whose name part is empty or blank fails with SpecParseError.
NameIsNotBlank ==
    \A p \in Procs : (Parsing(p) /\ pend[p].op = "parseSpec") =>
        /\ pend[p].ret.ok => trim(pend[p].ret.spec.name) # <<>>
        /\ ~pend[p].ret.ok => pend[p].outcome = "SpecParseError"

----------------------------------------------------------------------------
(* The commands and the entries they keep *)

\* the times of fetch that an index records for a specification
FetchedAts(index, spec) == {index.repos[i].fetchedAt : i \in Matching(index, spec)}

\* an entry that is there before and after a step has kept its fetchedAt
KeptFetchedAt(before, after) ==
    \A spec \in universe :
        (FetchedAts(before, spec) # {} /\ FetchedAts(after, spec) # {}) =>
            FetchedAts(after, spec) \subseteq FetchedAts(before, spec)

\* the index the process knows: the one in memory, the one of the metadata
\* file while none is loaded
Known == IF cache[1].index # Null THEN cache[1].index[1] ELSE loadFromDisk(TRUE)

\* C31: fetchedAt is immutable. No step of updateAccessTime, of a path, info
\* or open command or of a fetch without --force changes the fetchedAt of an
\* entry, in the index in memory or in the metadata file; a specification
\* gets a new fetchedAt only when its entry was removed (by --force too) and
\* a later step adds one.
FetchedAtImmutable ==
    [][ /\ KeptFetchedAt(loadFromDisk(TRUE), loadFromDisk(TRUE)')
        /\ KeptFetchedAt(Known, Known') ]_vars

\* a cached git checkout was fetched again, later and without --force: its
\* entry is on disk with the old fetchedAt and the new access time
FetchedAtImmutableWitness ==
    /\ pc[1] = "done"
    /\ pend[1].cmd = "fetch" /\ pend[1].op = "add" /\ pend[1].out # Null
    /\ clock > 0
    /\ \E spec \in universe :
          LET index == loadFromDisk(TRUE)
          IN  /\ FetchedAts(index, spec) = {toISOString(0)}
              /\ \E i \in Matching(index, spec) :
                    index.repos[i].lastAccessedAt = toISOString(clock)

\* the place of the first call of a name in the log, 0 when there is none
First(call) ==
    IF \E i \in 1..Len(calls) : calls[i].call = call
    THEN CHOOSE i \in 1..Len(calls) :
            calls[i].call = call /\ \A j \in 1..(i - 1) : calls[j].call # call
    ELSE 0

Forced == run.at # "none" /\ run.force /\ run.existing # Null

\* C32: forced re-fetch. fetch --force of a cached specification deletes the
\* content at the recorded path, then removes the entry from the index, then
\* fetches afresh; when that has succeeded the index holds exactly one entry
\* for the specification, and its path is the directory that registry.fetch
\* was given to populate.
ForcedRefetch ==
    /\ Forced => Len(CallsOf("git.update")) = 0 /\ Len(CallsOf("metadata.updateAccessTime")) = 0
    /\ (Forced /\ First("registry.fetch") > 0) =>
          /\ 0 < First("cache.remove")
          /\ First("cache.remove") < First("metadata.remove")
          /\ First("metadata.remove") < First("registry.fetch")
          /\ Len(CallsOf("cache.remove")) = 1 /\ Len(CallsOf("metadata.remove")) = 1
    /\ (Forced /\ Ended) =>
          LET index == cache[1].index[1]
              m == Matching(index, run.spec)
          IN  /\ First("registry.fetch") > 0
              /\ files[metadataPath] = Full(index)
              /\ IF run.error = NoError
                 THEN /\ Cardinality(m) = 1
                      /\ \A i \in m : index.repos[i].path = run.destPath
                      /\ First("registry.fetch") < First("metadata.add")
                 ELSE m = {}

\* a cached repository was fetched again with --force, from its removal to
\* the new entry
ForcedRefetchWitness ==
    /\ Forced
    /\ Ended
    /\ run.error = NoError
    /\ Len(CallsOf("metadata.add")) = 1
    /\ run.existing[1].path # run.destPath

----------------------------------------------------------------------------
(* The path and info commands *)

\* a path or info command found no entry, or found one
Looked(found) ==
    /\ run.cmd \in {"path", "info"}
    /\ (run.existing # Null) = found

\* what a command that found an entry leaves: the path on stdout, success,
\* the access time updated in memory and not on disk
Answered ==
    /\ run.stdout = NonNull(run.existing[1].path)
    /\ ~run.stderr
    /\ run.status = "success"
    /\ cache[1] = CacheState(NonNull(touch(run.index, run.spec, clock)), TRUE)
    /\ files[metadataPath] = run.file

\* C33: fire-and-forget refresh. The path command of a cached git checkout
\* prints the path and updates the access time before it starts
\* git.fetchRefs in the background; it can always return, whatever the
\* refresh is doing; and what it prints, how it ends and what it leaves are
\* the same whether the refresh is running, has succeeded, has failed or
\* never ends.
FireAndForget ==
    /\ run.refresh # "none" => run.cmd = "path" /\ First("git.fetchRefs") > 0
    /\ First("git.fetchRefs") > 0 =>
          /\ 0 < First("Console.log")
          /\ First("Console.log") < First("metadata.updateAccessTime")
          /\ First("metadata.updateAccessTime") < First("git.fetchRefs")
          /\ run.stdout = NonNull(run.existing[1].path)
    /\ (run.cmd = "path" /\ pc[1] = "command" /\ run.at = "return") => ENABLED PathReturn(1)
    /\ (run.cmd = "path" /\ Looked(TRUE) /\ Ended) => Answered

\* the path command has ended while the refresh it started is still running
FireAndForgetWitness ==
    /\ run.cmd = "path"
    /\ Ended
    /\ run.refresh = "running"
    /\ clock > 0

\* C34: not-found is terminal and free of side effects. A path or info
\* command for a specification without entry reports that it is not cached
\* (on stderr, or by its exit status) and stops: no updateAccessTime, no
\* refresh, no call beyond parseSpec and find, the metadata file untouched,
\* the index as loaded and the dirty flag clear.
NotFoundIsTerminal ==
    (Looked(FALSE) /\ run.at = "end") =>
        /\ run.stderr \/ run.status = "failure"
        /\ Len(calls) = 2
        /\ run.refresh = "none"
        /\ run.stdout = Null
        /\ files[metadataPath] = run.file
        /\ pc[1] \in {"returning", "done"} => cache[1] = CacheState(NonNull(run.index), FALSE)

----------------------------------------------------------------------------
(* The operations of one process, overlapping and in a row *)

\* C35: atomicity in memory. When operations of the metadata service overlap
\* in one process, each takes effect on the index the one before it left:
\* the index that an add leaves in memory is the index that was in memory
\* (the file's, when none was) with the entry added, so that the result is
\* that of the operations run one after the other and no update is lost.
InMemoryAtomicity ==
    [][ \A f \in Procs :
          (pc[f] \in {"ready", "reading"} /\ pc'[f] = "mkdir") =>
              cache'[1].index = NonNull(addTo(Known, pend'[f].arg)) ]_vars

\* a durable mutation has returned: an add, an addMany, a remove or removeMany
\* that removed something, or a save
Mutated(p) ==
    /\ pc[p] = "returning"
    /\ \/ pend[p].op \in {"add", "addMany", "save"}
       \/ pend[p].op = "remove" /\ pend[p].ret = TRUE
       \/ pend[p].op = "removeMany" /\ pend[p].ret > 0

\* C36: a pending access-time update is persisted by the next durable
\* mutation. When an add, an addMany, a remove or removeMany that removed
\* something, or a save returns, the dirty flag is clear and every entry the
\* in-memory index held before the call, an updated lastAccessedAt included,
\* that the call has kept is in the metadata file.
PendingUpdatePersisted ==
    \A p \in Procs : Mutated(p) =>
        /\ ~cache[p].dirty
        /\ \A e \in Entries(pend[p].before) :
              e \in Entries(cache[p].index[1]) => e \in Entries(loadFromDisk(TRUE))

\* an add has returned after an updateAccessTime gave an entry a later
\* lastAccessedAt than its fetchedAt, and the call has kept that entry
PendingUpdatePersistedWitness ==
    /\ Mutated(1)
    /\ pend[1].op = "add"
    /\ \E e \in Entries(pend[1].before) :
          /\ e.lastAccessedAt # e.fetchedAt
          /\ e \in Entries(cache[1].index[1])

\* C37: checkout at the derived tag. When the clone of the source repository
\* of a package whose version was resolved succeeds, the working copy in
\* destPath comes from the one clone that was given the derived tag, and from
\* no clone of another ref.
CheckoutAtDerivedTag ==
    (Resolved /\ run.cloneResult = "Right") =>
        /\ Len(Clones) = 1
        /\ Clones[1].ref
        /\ Clones[1].result = "zero"

\* C38: dirty-flag invariant. Between two operations of a process, when an
\* index is in memory and the dirty flag is clear, the metadata file decodes
\* to that index, or there is no file to decode and that index is empty.
DirtyFlagInvariant ==
    \A p \in Procs :
        (pc[p] = "ready" /\ cache[p].index # Null /\ ~cache[p].dirty) =>
            /\ loadFromDisk(TRUE) = cache[p].index[1]
            /\ ~exists(metadataPath) => cache[p].index[1] = EmptyIndex

\* an add has saved after an updateAccessTime: the flag is clear again and
\* the file holds the index with the updated entry and the added one
DirtyFlagInvariantWitness ==
    /\ pc[1] = "ready"
    /\ cache[1].index # Null
    /\ ~cache[1].dirty
    /\ Len(cache[1].index[1].repos) = 2
    /\ \E e \in Entries(cache[1].index[1]) : e.lastAccessedAt # e.fetchedAt
    /\ loadFromDisk(TRUE) = cache[1].index[1]

\* a directory of the cache that holds something
populated(path) == below(tree, {path}) \ {path} # {}

\* C39: index and cache directory agree at command boundaries. After any
\* sequence of completed fetch, fetch --force, remove, prune and clean --yes
\* commands from an empty cache, the path of every index entry is a directory
\* of the cache, and every populated directory that the cache gives a
\* specification is the path of an index entry.
IndexAgreesWithCache ==
    LET index == loadFromDisk(TRUE)
    IN  /\ \A e \in Entries(index) : e.path \in DOMAIN tree /\ tree[e.path] = "Directory"
        /\ \A spec \in universe :
              populated(normalizedPath(parseSpec(spec))) =>
                  \E e \in Entries(index) : e.path = normalizedPath(parseSpec(spec))

\* every index entry has its directory: the half of the claim that no
\* command breaks
EntriesHaveDirectories ==
    \A e \in Entries(loadFromDisk(TRUE)) : e.path \in DOMAIN tree /\ tree[e.path] = "Directory"
====
